---- MODULE Spec2Model ----
(***************************************************************************)
(* Job-Application-Bot: ingestion, upsert, HTTP retry and match            *)
(* persistence, modelled from app/ingestion, app/utils/http.py,            *)
(* app/db and app/tasks/jobs.py.                                           *)
(*                                                                         *)
(* The module holds several specifications over one set of variables:      *)
(*   SpecFetch      HttpClient.get and the adapters' fetch()               *)
(*   SpecIngest     session_scope + IngestionSource.ingest + upsert_job    *)
(*   SpecBatch      ingest_all over the entries of the seed file           *)
(*   SpecMatch      match_all runs, possibly interleaved                   *)
(*   SpecMatchDup   interleaved match_all runs under the configured        *)
(*                  threshold                                              *)
(*   SpecMatchSeq   match_all runs executed one at a time                  *)
(*   SpecMatchProfiles                                                     *)
(*                  match_all runs for two profiles, one at a time         *)
(*   SpecGeo, SpecSort, SpecSalary, SpecNormalize                          *)
(*                  filter_by_geo, the ranking sort, extract_salary_range  *)
(*                  and normalize_payload called on their own              *)
(*   SpecLocation, SpecTags, SpecShape, SpecScore, SpecProfile             *)
(*                  normalize_location, the tags of normalize_payload,     *)
(*                  the body read of fetch(), the keyword component of     *)
(*                  score and get_default_profile called on their own      *)
(* Each specification leaves the variables of the others at their initial  *)
(* values.                                                                 *)
(***************************************************************************)
EXTENDS Integers, Sequences, FiniteSets, TLC

VARIABLES
    feed,      \* postings currently served by the external source
    srvTag,    \* ETag the source currently attaches to its listing
    etag,      \* GreenhouseIngestion._etag of the adapter instance
    http,      \* activation record of HttpClient.get
    fetch,     \* activation record of <Adapter>.fetch
    dialect,   \* database the engine is bound to (DATABASE_URL)
    db,        \* committed rows of the jobs table
    sess,      \* the open Session: rows it sees, pending (added, unflushed) objects
    run,       \* activation record of an ingestion run inside session_scope
    hist,      \* what the previous ingestion run saw and did
    matches,   \* committed rows of the matches table
    mrun,      \* activation records of the match_all runs, one per worker process
    call       \* activation record of a helper function called on its own

fetchVars  == <<feed, srvTag, etag, http, fetch>>
ingestVars == <<dialect, db, sess, run, hist>>
matchVars  == <<matches, mrun>>
callVars   == <<call>>
vars       == <<feed, srvTag, etag, http, fetch, dialect, db, sess, run, hist, matches, mrun, call>>

NoneVal == "None"

\* ---------------------------------------------------------------- bounds
MaxPostings == 2      \* postings a source serves at a time
MaxLimit    == 2      \* largest limit passed to fetch
MaxRetries  == 3      \* largest max_retries passed to HttpClient.get
MaxJobs     == 2      \* longest job list handed to a filter on its own
MaxTokens   == 5      \* longest salary text, in lexical tokens

\* ------------------------------------------------------- program constants
RETRYABLE_STATUS_CODES == {429, 500, 502, 503, 504}
DefaultMaxRetries == 3
InitialDelay == 500           \* delay = 0.5 s, in milliseconds
NOT_MODIFIED == 304
NoLimit == 0 - 1              \* limit = None

\* ------------------------------------------------------------- the source
Adapters == {"greenhouse", "lever", "workday", "rss"}

\* A posting as the source serves it: identifier, title, publication time.
Posting(i, t, p) == [id |-> i, title |-> t, posted_at |-> p]

\* The raw payload an adapter shapes from one posting (the fields the model
\* follows: natural key, title, publication time).
ShapePosting(source, job) ==
    [source |-> source, external_id |-> job.id, title |-> job.title,
     posted_at |-> job.posted_at]

\* The listings used to exercise fetch(): the first n canonical postings.
CanonFeed(n) == [i \in 1..n |-> Posting(i, "A", NoneVal)]
FetchFeeds == {CanonFeed(n) : n \in 0..MaxPostings}

\* Error statuses the source answers with in the model: two of the retryable
\* ones and 404 for the non-retryable ones.
ErrorStatuses == {404, 429, 503}

Response(s, e, b) == [status |-> s, etag |-> e, body |-> b]

\* What the source can answer to one request carrying the given
\* If-None-Match header (NoneVal when the header is absent).
TransportError == 0     \* no response at all: httpx.TransportError

ServerResponses(ifNoneMatch) ==
    (IF ifNoneMatch = srvTag
        THEN {Response(NOT_MODIFIED, srvTag, <<>>)}
        ELSE {Response(200, srvTag, feed)})
    \cup {Response(s, NoneVal, <<>>) : s \in ErrorStatuses}
    \cup {Response(TransportError, NoneVal, <<>>)}

\* ---------------------------------------------------------- HttpClient.get
\* A raise_for_status that lets client errors through.
IsSuccess_ServerErrorsOnly(status) == status \in 200..499

\* httpx.Response.raise_for_status(): every status outside 2xx raises
\* HTTPStatusError (the client is built with follow_redirects, httpx >= 0.20).
IsSuccess(status) == status \in 200..299

\* The retry test without the "- 1": the last attempt sleeps as well.
ShouldRetry_OffByOne(status, attempt, max_retries) ==
    status \in RETRYABLE_STATUS_CODES /\ attempt < max_retries

\* The first branch of the loop body: retry on a retryable status while
\* attempts remain.
ShouldRetry(status, attempt, max_retries) ==
    status \in RETRYABLE_STATUS_CODES /\ attempt < max_retries - 1

HttpIdle == [pc |-> "idle", attempt |-> 0, delay |-> InitialDelay,
             max_retries |-> DefaultMaxRetries, headers |-> NoneVal,
             statuses |-> <<>>, sleeps |-> <<>>,
             response |-> Response(TransportError, NoneVal, <<>>), exc |-> NoneVal]

\* Entry of get(): delay = 0.5, last_exc = None, attempt = 0.
HttpEnter(headers, max_retries) ==
    [HttpIdle EXCEPT !.pc = "loop", !.headers = headers, !.max_retries = max_retries]

\* One iteration of `for attempt in range(max_retries)`.
HttpIteration(h, resp) ==
    LET seen == [h EXCEPT !.statuses = Append(@, resp.status)] IN
    IF resp.status = TransportError
    THEN \* the except clause reads exc.response, which a TransportError
         \* lacks: the handler itself raises and the call ends
         [seen EXCEPT !.pc = "raised", !.exc = "AttributeError"]
    ELSE IF ShouldRetry(resp.status, h.attempt, h.max_retries)
    THEN [seen EXCEPT !.sleeps = Append(@, h.delay), !.delay = h.delay * 2,
                      !.attempt = h.attempt + 1]
    ELSE IF IsSuccess(resp.status)
    THEN [seen EXCEPT !.pc = "returned", !.response = resp]
    ELSE IF resp.status \notin RETRYABLE_STATUS_CODES
            \/ h.attempt >= h.max_retries - 1
    THEN [seen EXCEPT !.pc = "raised", !.exc = "HTTPStatusError"]
    ELSE [seen EXCEPT !.sleeps = Append(@, h.delay), !.delay = h.delay * 2,
                      !.attempt = h.attempt + 1]

\* ------------------------------------------------------------ Adapter.fetch
\* The emit loop shared by the four adapters: append the shaped posting,
\* then break once limit is reached.
RECURSIVE EmitLoop(_, _, _, _)
EmitLoop(source, jobs, limit, normalised) ==
    IF jobs = <<>> THEN normalised
    ELSE LET out == Append(normalised, ShapePosting(source, Head(jobs))) IN
         IF limit # NoLimit /\ Len(out) >= limit
         THEN out
         ELSE EmitLoop(source, Tail(jobs), limit, out)

Emit(source, jobs, limit) == EmitLoop(source, jobs, limit, <<>>)

FetchIdle == [pc |-> "idle", adapter |-> "greenhouse", limit |-> NoLimit,
              public |-> TRUE, sent |-> NoneVal, prior |-> NoneVal,
              items |-> <<>>]

\* fetch() up to its call of client.get. WorkdayIngestion returns [] at once
\* when the search URL is not a public endpoint.
FetchCall(adapter, limit, public) ==
    /\ fetch.pc \in {"idle", "returned", "raised"}
    /\ http.pc # "loop"
    /\ LET headers == IF adapter = "greenhouse" /\ etag # NoneVal
                      THEN etag ELSE NoneVal
           f == [FetchIdle EXCEPT !.adapter = adapter, !.limit = limit,
                                  !.public = public, !.sent = headers,
                                  !.prior = etag]
       IN IF adapter = "workday" /\ ~public
          THEN /\ fetch' = [f EXCEPT !.pc = "returned"]
               /\ http' = HttpIdle
          ELSE /\ fetch' = [f EXCEPT !.pc = "get"]
               /\ http' = HttpEnter(headers, DefaultMaxRetries)
    /\ UNCHANGED <<feed, srvTag, etag, ingestVars, matchVars, callVars>>

\* HttpClient.get called on its own with an explicit max_retries.
DirectGet(max_retries) ==
    /\ fetch.pc \in {"idle", "returned", "raised"}
    /\ http.pc # "loop"
    /\ http' = HttpEnter(NoneVal, max_retries)
    /\ fetch' = FetchIdle
    /\ UNCHANGED <<feed, srvTag, etag, ingestVars, matchVars, callVars>>

HttpAttempt ==
    /\ http.pc = "loop"
    /\ http.attempt < http.max_retries
    /\ \E resp \in ServerResponses(http.headers) :
          http' = HttpIteration(http, resp)
    /\ UNCHANGED <<feed, srvTag, etag, fetch, ingestVars, matchVars, callVars>>

\* The loop ran out without returning or raising: last_exc, else RuntimeError.
HttpLoopExit ==
    /\ http.pc = "loop"
    /\ http.attempt >= http.max_retries
    /\ http' = [http EXCEPT !.pc = "raised", !.exc = "RuntimeError"]
    /\ UNCHANGED <<feed, srvTag, etag, fetch, ingestVars, matchVars, callVars>>

\* fetch() after client.get came back.
FetchResume ==
    /\ fetch.pc = "get"
    /\ http.pc \in {"returned", "raised"}
    /\ IF http.pc = "raised"
       THEN /\ fetch' = [fetch EXCEPT !.pc = "raised"]
            /\ etag' = etag
       ELSE IF fetch.adapter = "greenhouse" /\ http.response.status = NOT_MODIFIED
       THEN /\ fetch' = [fetch EXCEPT !.pc = "returned", !.items = <<>>]
            /\ etag' = etag
       ELSE /\ etag' = IF fetch.adapter = "greenhouse" /\ http.response.etag # NoneVal
                       THEN http.response.etag ELSE etag
            /\ fetch' = [fetch EXCEPT !.pc = "returned",
                                      !.items = Emit(fetch.adapter, http.response.body,
                                                     fetch.limit)]
    /\ UNCHANGED <<feed, srvTag, http, ingestVars, matchVars, callVars>>

\* The source republishes its listing under a new ETag.
SourceChanges ==
    /\ \E f \in FetchFeeds : feed' = f
    /\ srvTag' = IF srvTag = "e1" THEN "e2" ELSE "e1"
    /\ UNCHANGED <<etag, http, fetch, ingestVars, matchVars, callVars>>

\* ------------------------------------------------- fetch(), the body read
\* The body of a 2xx response as response.json() reads it: text that is
\* not JSON ("invalid"), a JSON scalar, a JSON list, or a JSON object
\* holding a list under one key. An element of the list is a posting
\* object or anything else (a string, a number, null).
Element(is_dict, job) == [is_dict |-> is_dict, job |-> job]
NotAnObject == Element(FALSE, Posting(0, "", NoneVal))
Body(container, key, elements) ==
    [container |-> container, key |-> key, elements |-> elements]
JobsKey == [greenhouse |-> "jobs", workday |-> "jobPostings"]

\* `jobs`: the list the adapter walks.
JobsOf(adapter, body) ==
    IF adapter = "lever"
    THEN IF body.container = "list" THEN body.elements ELSE <<>>
    ELSE IF body.container = "dict" /\ body.key = JobsKey[adapter]
    THEN body.elements ELSE <<>>

FetchReturned(items) == [raised |-> FALSE, exc |-> NoneVal, items |-> items]
FetchRaised(exc) == [raised |-> TRUE, exc |-> exc, items |-> <<>>]

\* The loop over `jobs`: job.get(...) on an element that is no object
\* raises AttributeError; otherwise the shaped posting is appended and the
\* loop breaks once limit is reached.
RECURSIVE ShapeLoop(_, _, _, _)
ShapeLoop(source, jobs, limit, normalised) ==
    IF jobs = <<>> THEN FetchReturned(normalised)
    ELSE IF ~Head(jobs).is_dict THEN FetchRaised("AttributeError")
    ELSE LET out == Append(normalised, ShapePosting(source, Head(jobs).job)) IN
         IF limit # NoLimit /\ Len(out) >= limit
         THEN FetchReturned(out)
         ELSE ShapeLoop(source, Tail(jobs), limit, out)

\* fetch() of the JSON adapters, given what client.get did: it raised, or
\* it returned a 2xx response with the given body.
Fetch(adapter, public, got, limit) ==
    IF adapter = "workday" /\ ~public THEN FetchReturned(<<>>)
    ELSE IF got.raised THEN FetchRaised(got.exc)
    ELSE IF got.body.container = "invalid" THEN FetchRaised("JSONDecodeError")
    ELSE ShapeLoop(adapter, JobsOf(adapter, got.body), limit, <<>>)

\* ======================================================= ingestion and upsert
\* Timestamps: an instant and whether the value carries tzinfo. A naive and
\* an aware datetime never compare equal in Python.
NoDateTime == [instant |-> 0, tz |-> NoneVal]
DateTime(i, tz) == [instant |-> i, tz |-> tz]

\* dateutil's parse of the one timestamp string the postings use.
ParseInstant(text) == IF text = "2024-01-01T00:00:00Z" THEN 1 ELSE 0

\* _coerce_datetime: None stays None, anything parsable becomes aware UTC.
CoerceDatetime(value) ==
    IF value = NoneVal THEN NoDateTime
    ELSE IF ParseInstant(value) = 0 THEN NoDateTime
    ELSE DateTime(ParseInstant(value), "UTC")

\* normalize_payload, for the fields the model follows.
NormalizePayload(payload) ==
    [source |-> payload.source, external_id |-> payload.external_id,
     title |-> payload.title, posted_at |-> CoerceDatetime(payload.posted_at)]

\* The tracked fields of upsert_job that the model follows (the other ten
\* are compared and assigned by the same loop).
updatable_fields == {"title", "posted_at"}

\* A Job object; id 0 is a primary key not assigned yet (the uuid default is
\* applied by the INSERT).
Job(id, n) == [id |-> id, source |-> n.source, external_id |-> n.external_id,
               title |-> n.title, posted_at |-> n.posted_at]

SameKey(a, b) == a.source = b.source /\ a.external_id = b.external_id

\* Column DateTime(timezone=True): SQLite keeps the wall-clock fields only,
\* so the value is read back naive; PostgreSQL keeps the instant and reads
\* it back aware.
StoreDateTime(d, value) ==
    IF value = NoDateTime THEN NoDateTime
    ELSE IF d = "sqlite" THEN DateTime(value.instant, "naive")
    ELSE DateTime(value.instant, "UTC")

StoreRow(d, row) == [row EXCEPT !.posted_at = StoreDateTime(d, row.posted_at)]

SessClosed == [rows |-> {}, pending |-> <<>>]
IngestResult == [fetched |-> 0, inserted |-> 0, updated |-> 0, skipped |-> 0]
NoPayload == ShapePosting("", Posting(0, "", NoneVal))
RunIdle == [pc |-> "idle", kind |-> "ingest", batch |-> <<>>, result |-> IngestResult,
            dry_run |-> FALSE, limit |-> NoLimit, repeat |-> FALSE,
            status |-> NoneVal, payload |-> NoPayload, exc |-> NoneVal,
            wrote |-> FALSE,
            \* locals of ingest_all
            sources |-> <<>>, targets |-> <<>>, adapter |-> "", results |-> <<>>,
            requests |-> 0, returned |-> FALSE]
HistNone == [clean |-> FALSE, limit |-> NoLimit]

\* The assignment loop forgetting every field after the first that differs.
ApplyFields_FirstOnly(existing, normalized) ==
    IF existing.title # normalized.title
    THEN [existing EXCEPT !.title = normalized.title]
    ELSE [existing EXCEPT !.posted_at = normalized.posted_at]

\* for field in updatable_fields: setattr when the value differs.
ApplyFields(existing, normalized) ==
    [f \in DOMAIN existing |->
        IF f \in updatable_fields /\ existing[f] # normalized[f]
        THEN normalized[f] ELSE existing[f]]

\* upsert_job on a session state: the new session state and the status.
\* The SELECT runs against the database (autoflush is off), so it sees the
\* rows of the transaction but not the pending objects.
UpsertJob(s, payload) ==
    LET normalized == NormalizePayload(payload)
        found == {r \in s.rows : SameKey(r, normalized)}
    IN IF Cardinality(found) > 1
       THEN [sess |-> s, status |-> "MultipleResultsFound"]
       ELSE IF found = {}
       THEN [sess |-> [s EXCEPT !.pending = Append(@, Job(0, normalized))],
             status |-> "inserted"]
       ELSE LET existing == CHOOSE r \in found : TRUE
                changed == \E f \in updatable_fields : existing[f] # normalized[f]
            IN IF changed
               THEN [sess |-> [s EXCEPT !.rows = (@ \ {existing})
                                   \cup {ApplyFields(existing, normalized)}],
                     status |-> "updated"]
               ELSE [sess |-> s, status |-> "unchanged"]

FreshId(rows) == CHOOSE i \in 1..(Cardinality(rows) + 1) : \A r \in rows : r.id # i

\* A flush that does not enforce uq_jobs_source_external_id.
RECURSIVE FlushLoop_NoConstraint(_, _)
FlushLoop_NoConstraint(rows, pending) ==
    IF pending = <<>> THEN [ok |-> TRUE, rows |-> rows]
    ELSE FlushLoop_NoConstraint(
            rows \cup {[Head(pending) EXCEPT !.id = FreshId(rows)]}, Tail(pending))

\* session.flush(): INSERT the pending objects in order; the unique
\* constraint on (source, external_id) rejects a second row for a key.
RECURSIVE FlushLoop(_, _)
FlushLoop(rows, pending) ==
    IF pending = <<>> THEN [ok |-> TRUE, rows |-> rows]
    ELSE IF \E r \in rows : SameKey(r, Head(pending))
    THEN [ok |-> FALSE, rows |-> rows]
    ELSE FlushLoop(rows \cup {[Head(pending) EXCEPT !.id = FreshId(rows)]},
                   Tail(pending))

\* A tally that counts an updated item as skipped as well.
Count_UpdatedAlsoSkipped(result, status) ==
    [result EXCEPT !.fetched = @ + 1,
                   !.inserted = IF status = "inserted" THEN @ + 1 ELSE @,
                   !.updated = IF status = "updated" THEN @ + 1 ELSE @,
                   !.skipped = IF status # "inserted" THEN @ + 1 ELSE @]

\* A tally that counts only dry-run items as skipped.
Count_DryRunOnly(result, status) ==
    [result EXCEPT !.fetched = @ + 1,
                   !.inserted = IF status = "inserted" THEN @ + 1 ELSE @,
                   !.updated = IF status = "updated" THEN @ + 1 ELSE @,
                   !.skipped = IF status = "dry_run" THEN @ + 1 ELSE @]

\* IngestResult after one loop iteration with the given upsert status.
Count(result, status) ==
    [result EXCEPT !.fetched = @ + 1,
                   !.inserted = IF status = "inserted" THEN @ + 1 ELSE @,
                   !.updated = IF status = "updated" THEN @ + 1 ELSE @,
                   !.skipped = IF status \in {"dry_run", "unchanged"} THEN @ + 1 ELSE @]

\* session_scope() is entered and ingest() fetches: the adapter of the run
\* emits the payloads (the transport succeeds here; SpecFetch covers get()).
BeginIngest(limit, dry_run) ==
    /\ run.pc \in {"idle", "committed", "raised"}
    /\ sess' = [rows |-> db, pending |-> <<>>]
    /\ run' = [RunIdle EXCEPT !.pc = "loop",
                              !.batch = Emit("greenhouse", feed, limit),
                              !.dry_run = dry_run, !.limit = limit,
                              !.repeat = hist.clean /\ hist.limit = limit /\ ~dry_run]
    /\ UNCHANGED <<feed, dialect, db, hist, srvTag, etag, http, fetch, matchVars, callVars>>

\* session_scope() is entered for one upsert_job call (bootstrap_defaults).
BeginUpsert(payload) ==
    /\ run.pc \in {"idle", "committed", "raised"}
    /\ sess' = [rows |-> db, pending |-> <<>>]
    /\ run' = [RunIdle EXCEPT !.pc = "loop", !.kind = "upsert", !.batch = <<payload>>]
    /\ UNCHANGED <<feed, dialect, db, hist, srvTag, etag, http, fetch, matchVars, callVars>>

\* One iteration of the loop of ingest(): count, then skip (dry run) or upsert.
IngestItem ==
    /\ run.pc = "loop"
    /\ run.batch # <<>>
    /\ LET payload == Head(run.batch) IN
       IF run.dry_run
       THEN /\ run' = [run EXCEPT !.batch = Tail(@), !.payload = payload,
                                  !.status = "dry_run",
                                  !.result = Count(@, "dry_run")]
            /\ UNCHANGED <<sess, db, hist>>
       ELSE LET up == UpsertJob(sess, payload) IN
            IF up.status = "MultipleResultsFound"
            THEN \* the exception leaves session_scope: rollback
                 /\ run' = [run EXCEPT !.pc = "raised", !.exc = up.status,
                                       !.payload = payload, !.status = up.status]
                 /\ sess' = SessClosed
                 /\ hist' = HistNone
                 /\ db' = db
            ELSE /\ run' = [run EXCEPT !.batch = Tail(@), !.payload = payload,
                                       !.status = up.status,
                                       !.result = Count(@, up.status)]
                 /\ sess' = up.sess
                 /\ UNCHANGED <<db, hist>>
    /\ UNCHANGED <<feed, dialect, srvTag, etag, http, fetch, matchVars, callVars>>

\* The loop is over: flush (a dry run writes nothing, so its flush at commit
\* is empty too), return the summary, and session_scope() commits, or rolls
\* back and re-raises when the flush fails.
IngestFinish ==
    /\ run.pc = "loop"
    /\ run.batch = <<>>
    /\ LET fl == FlushLoop(sess.rows, sess.pending)
           stored == {StoreRow(dialect, r) : r \in fl.rows}
       IN IF fl.ok
          THEN /\ db' = stored
               /\ run' = [run EXCEPT !.pc = "committed", !.wrote = (stored # db)]
               /\ hist' = IF run.kind = "ingest" /\ ~run.dry_run
                          THEN [clean |-> TRUE, limit |-> run.limit]
                          ELSE IF run.kind = "ingest" THEN hist ELSE HistNone
          ELSE /\ db' = db
               /\ run' = [run EXCEPT !.pc = "raised", !.exc = "IntegrityError"]
               /\ hist' = HistNone
    /\ sess' = SessClosed
    /\ UNCHANGED <<feed, dialect, srvTag, etag, http, fetch, matchVars, callVars>>

\* Postings the source serves in the ingestion runs: two versions of
\* posting 1, posting 1 with a publication time, and posting 2.
IngestPostings ==
    {Posting(1, "A", NoneVal), Posting(1, "B", NoneVal),
     Posting(1, "A", "2024-01-01T00:00:00Z"), Posting(2, "A", NoneVal)}

IngestFeeds == UNION {[1..n -> IngestPostings] : n \in 0..MaxPostings}

\* The source publishes a different listing.
SourceRepublishes ==
    /\ run.pc \in {"idle", "committed", "raised"}
    /\ \E f \in IngestFeeds : f # feed /\ feed' = f
    /\ hist' = HistNone
    /\ UNCHANGED <<dialect, db, sess, run, srvTag, etag, http, fetch, matchVars, callVars>>

\* ================================================================= ingest_all
\* Source identifiers _build_ingestor knows.
SupportedSources == {"greenhouse", "lever", "workday"}

\* _build_ingestor: the adapter's source name, or ValueError for an unknown
\* source identifier or an entry without board / company / url.
BuildIngestor(source, entry) ==
    IF source \notin SupportedSources THEN "ValueError"
    ELSE IF entry = "" THEN "ValueError"
    ELSE source

\* for source in targets: for entry in configured_sources.get(source, []),
\* flattened into the sequence of (source, entry) pairs the loops visit.
RECURSIVE Flatten(_, _)
Flatten(targets, configured_sources) ==
    IF targets = <<>> THEN <<>>
    ELSE LET source == Head(targets)
             entries == IF source \in DOMAIN configured_sources
                        THEN configured_sources[source] ELSE <<>>
         IN [i \in 1..Len(entries) |-> [source |-> source, entry |-> entries[i]]]
            \o Flatten(Tail(targets), configured_sources)

\* list(configured_sources.keys()), in the order of the seed file.
RECURSIVE Keys(_, _)
Keys(order, configured_sources) ==
    IF order = <<>> THEN <<>>
    ELSE (IF Head(order) \in DOMAIN configured_sources THEN <<Head(order)>> ELSE <<>>)
         \o Keys(Tail(order), configured_sources)
SeedOrder == <<"greenhouse", "lever", "rss">>

\* An exit that commits what was flushed before the error.
BatchRaise_NoRollback(exc) ==
    /\ run' = [run EXCEPT !.pc = "raised", !.exc = exc, !.returned = FALSE]
    /\ sess' = SessClosed
    /\ db' = {StoreRow(dialect, r) : r \in sess.rows}

\* session_scope raised: rollback, close, re-raise; ingest_all returns nothing.
BatchRaise(exc) ==
    /\ run' = [run EXCEPT !.pc = "raised", !.exc = exc, !.returned = FALSE]
    /\ sess' = SessClosed
    /\ db' = db

\* ingest_all up to the loops: load the seed file, pick the targets, open
\* the session.
BatchBegin(sources, configured_sources, limit, dry_run) ==
    /\ run.pc \in {"idle", "committed", "raised"}
    /\ LET targets == IF sources # <<>> THEN sources
                      ELSE Keys(SeedOrder, configured_sources)
       IN run' = [RunIdle EXCEPT !.pc = "build", !.kind = "batch",
                                 !.sources = sources,
                                 !.targets = Flatten(targets, configured_sources),
                                 !.limit = limit, !.dry_run = dry_run]
    /\ sess' = [rows |-> db, pending |-> <<>>]
    /\ UNCHANGED <<feed, dialect, db, hist, srvTag, etag, http, fetch, matchVars, callVars>>

\* ingestor = _build_ingestor(source, entry)
BatchBuild ==
    /\ run.pc = "build"
    /\ run.targets # <<>>
    /\ LET built == BuildIngestor(Head(run.targets).source, Head(run.targets).entry)
       IN IF built = "ValueError"
          THEN BatchRaise("ValueError")
          ELSE /\ run' = [run EXCEPT !.pc = "fetch", !.adapter = built]
               /\ UNCHANGED <<sess, db>>
    /\ UNCHANGED <<feed, dialect, hist, srvTag, etag, http, fetch, matchVars, callVars>>

\* ingestor.ingest(...) up to the first payload: fetch() issues its request
\* and either gets the listing or raises what HttpClient.get raised.
BatchFetch ==
    /\ run.pc = "fetch"
    /\ \E outcome \in {"ok", "HTTPStatusError"} :
          IF outcome = "ok"
          THEN /\ run' = [run EXCEPT !.pc = "items", !.requests = @ + 1,
                                     !.result = IngestResult,
                                     !.batch = Emit(run.adapter, feed, run.limit)]
               /\ UNCHANGED <<sess, db>>
          ELSE /\ run' = [run EXCEPT !.pc = "raised", !.exc = outcome,
                                     !.requests = @ + 1, !.returned = FALSE]
               /\ sess' = SessClosed
               /\ db' = db
    /\ UNCHANGED <<feed, dialect, hist, srvTag, etag, http, fetch, matchVars, callVars>>

\* One iteration of the loop of ingest() inside ingest_all.
BatchItem ==
    /\ run.pc = "items"
    /\ run.batch # <<>>
    /\ LET payload == Head(run.batch) IN
       IF run.dry_run
       THEN /\ run' = [run EXCEPT !.batch = Tail(@), !.payload = payload,
                                  !.status = "dry_run",
                                  !.result = Count(@, "dry_run")]
            /\ UNCHANGED <<sess, db>>
       ELSE LET up == UpsertJob(sess, payload) IN
            IF up.status = "MultipleResultsFound"
            THEN BatchRaise(up.status)
            ELSE /\ run' = [run EXCEPT !.batch = Tail(@), !.payload = payload,
                                       !.status = up.status,
                                       !.result = Count(@, up.status)]
                 /\ sess' = up.sess
                 /\ db' = db
    /\ UNCHANGED <<feed, dialect, hist, srvTag, etag, http, fetch, matchVars, callVars>>

\* An ingest() that returns its result without flushing the session.
BatchFlush_NoFlush ==
    /\ run.pc = "items"
    /\ run.batch = <<>>
    /\ LET summary == [source |-> run.adapter, fetched |-> run.result.fetched,
                       inserted |-> run.result.inserted,
                       updated |-> run.result.updated,
                       skipped |-> run.result.skipped]
       IN /\ run' = [run EXCEPT !.pc = "build", !.targets = Tail(@),
                                !.results = Append(@, summary)]
          /\ UNCHANGED <<sess, db>>
    /\ UNCHANGED <<feed, dialect, hist, srvTag, etag, http, fetch, matchVars, callVars>>

\* The loop of ingest() is over: session.flush() unless dry_run, return the
\* result; ingest_all appends it and goes on to the next entry.
BatchFlush ==
    /\ run.pc = "items"
    /\ run.batch = <<>>
    /\ LET fl == IF run.dry_run THEN [ok |-> TRUE, rows |-> sess.rows]
                 ELSE FlushLoop(sess.rows, sess.pending)
           summary == [source |-> run.adapter, fetched |-> run.result.fetched,
                       inserted |-> run.result.inserted,
                       updated |-> run.result.updated,
                       skipped |-> run.result.skipped]
       IN IF fl.ok
          THEN /\ sess' = [rows |-> fl.rows,
                           pending |-> IF run.dry_run THEN sess.pending ELSE <<>>]
               /\ run' = [run EXCEPT !.pc = "build", !.targets = Tail(@),
                                     !.results = Append(@, summary)]
               /\ db' = db
          ELSE BatchRaise("IntegrityError")
    /\ UNCHANGED <<feed, dialect, hist, srvTag, etag, http, fetch, matchVars, callVars>>

\* Both loops are over: session_scope commits and ingest_all returns results.
BatchCommit ==
    /\ run.pc = "build"
    /\ run.targets = <<>>
    /\ LET fl == FlushLoop(sess.rows, sess.pending)
           stored == {StoreRow(dialect, r) : r \in fl.rows}
       IN IF fl.ok
          THEN /\ db' = stored
               /\ run' = [run EXCEPT !.pc = "committed", !.returned = TRUE,
                                     !.wrote = (stored # db)]
               /\ sess' = SessClosed
          ELSE BatchRaise("IntegrityError")
    /\ UNCHANGED <<feed, dialect, hist, srvTag, etag, http, fetch, matchVars, callVars>>

\* ================================================================== match_all
\* Strings of the matching cascade are sequences of characters.
UpperToLower == [U |-> "u", S |-> "s", P |-> "p", H |-> "h", D |-> "d", E |-> "e",
                 R |-> "r", A |-> "a"]
Lower(str) == [i \in 1..Len(str) |->
                 IF str[i] \in DOMAIN UpperToLower THEN UpperToLower[str[i]] ELSE str[i]]
\* `sub in str`
Contains(str, sub) ==
    \E i \in 0..(Len(str) - Len(sub)) : SubSeq(str, i + 1, i + Len(sub)) = sub
RECURSIVE Strip(_)
Strip(str) ==
    IF str = <<>> THEN str
    ELSE IF Head(str) = " " THEN Strip(Tail(str))
    ELSE IF str[Len(str)] = " " THEN Strip(SubSeq(str, 1, Len(str) - 1))
    ELSE str

\* filters._normalize: strip every value, drop the empty ones.
RECURSIVE Normalize(_)
Normalize(values) ==
    IF values = <<>> THEN <<>>
    ELSE IF Strip(Head(values)) = <<>> THEN Normalize(Tail(values))
    ELSE <<Strip(Head(values))>> \o Normalize(Tail(values))

Elems(seq) == {seq[i] : i \in 1..Len(seq)}

\* A geo filter without the remote shortcut.
filter_by_geo_RegionsOnly(jobs, allowed_regions) ==
    LET allowed == {Lower(r) : r \in Elems(Normalize(allowed_regions))}
        Keep(job) == \E marker \in allowed : Contains(Lower(job.location), marker)
    IN SelectSeq(jobs, Keep)

\* filter_by_geo: remote jobs pass, the others need a marker in the location.
filter_by_geo(jobs, allowed_regions) ==
    LET allowed == {Lower(r) : r \in Elems(Normalize(allowed_regions))}
        Keep(job) == job.remote \/ \E marker \in allowed : Contains(Lower(job.location), marker)
    IN SelectSeq(jobs, Keep)

filter_by_min_score(jobs, minimum) ==
    LET Keep(job) == job.score >= minimum IN SelectSeq(jobs, Keep)

\* A title filter for which an empty keyword list matches nothing.
filter_by_title_keywords_NoPassThrough(jobs, keywords) ==
    LET keyword_list == {Lower(k) : k \in Elems(Normalize(keywords))}
        Keep(job) == \E keyword \in keyword_list : Contains(Lower(job.title), keyword)
    IN SelectSeq(jobs, Keep)

\* filter_by_title_keywords: pass-through without keywords, else the title
\* must contain one.
filter_by_title_keywords(jobs, keywords) ==
    LET keyword_list == {Lower(k) : k \in Elems(Normalize(keywords))}
        Keep(job) == \E keyword \in keyword_list : Contains(Lower(job.title), keyword)
    IN IF keyword_list = {} THEN jobs ELSE SelectSeq(jobs, Keep)

\* list.sort(key=score, reverse=True): stable, equal scores keep their order.
\* An insertion that puts an item ahead of the items of equal score.
RECURSIVE InsertByScore_AheadOfTies(_, _)
InsertByScore_AheadOfTies(sorted, item) ==
    IF sorted = <<>> THEN <<item>>
    ELSE IF Head(sorted).score > item.score
    THEN <<Head(sorted)>> \o InsertByScore_AheadOfTies(Tail(sorted), item)
    ELSE <<item>> \o sorted

RECURSIVE InsertByScore(_, _)
InsertByScore(sorted, item) ==
    IF sorted = <<>> THEN <<item>>
    ELSE IF Head(sorted).score >= item.score
    THEN <<Head(sorted)>> \o InsertByScore(Tail(sorted), item)
    ELSE <<item>> \o sorted
RECURSIVE SortByScore(_, _)
SortByScore(items, sorted) ==
    IF items = <<>> THEN sorted
    ELSE SortByScore(Tail(items), InsertByScore(sorted, Head(items)))

\* Settings of the run (scores are hundredths).
settings == [min_score |-> 50,
             geo_filter_keywords |-> << <<"U", "S">> >>,
             title_keywords |-> << <<"P", "H", "P">> >>]
NoMinScore == 0 - 1            \* min_score = None

\* The stored jobs match_all reads, in read order.
MatchJobs ==
    << [id |-> 1, title |-> <<"P", "H", "P">>, location |-> <<"D", "E">>, remote |-> TRUE],
       [id |-> 2, title |-> <<"D", "E", "V">>, location |-> <<"u", "s">>, remote |-> FALSE],
       [id |-> 3, title |-> <<"P", "H", "P">>, location |-> <<"D", "E">>, remote |-> FALSE] >>
JobIds == {MatchJobs[i].id : i \in 1..Len(MatchJobs)}
Profiles == {1, 2}             \* ids of the stored profiles
ProfileIds == {1, 3}           \* ids the racing runs are called with

\* score() results a run can compute for a job:
\* 0.6 * cosine + 0.4 * keyword ratio.
ScoreResult(sc, cos, kw) == [score |-> sc, cosine |-> cos, matched_keywords |-> kw]
ScoreResults == {ScoreResult(40, 0, <<"php">>), ScoreResult(60, 100, <<>>)}

\* The reason string of a ranked survivor.
Reason(item) ==
    IF item.matched_keywords # <<>>
    THEN [kind |-> "Matched keywords",
          keywords |-> SubSeq(item.matched_keywords, 1,
                              IF Len(item.matched_keywords) < 5
                              THEN Len(item.matched_keywords) ELSE 5),
          cosine |-> 0]
    ELSE [kind |-> "Cosine similarity", keywords |-> <<>>, cosine |-> item.cosine]

\* job_candidates, the three filters and the sort.
Candidate(job, result) ==
    [job |-> job.id, score |-> result.score,
     matched_keywords |-> result.matched_keywords, cosine |-> result.cosine,
     location |-> job.location, remote |-> job.remote, title |-> job.title]
Ranked(scores, threshold, title_keywords) ==
    LET job_candidates == [i \in 1..Len(MatchJobs) |->
                              Candidate(MatchJobs[i], scores[MatchJobs[i].id])]
        geo_filtered == filter_by_geo(job_candidates, settings.geo_filter_keywords)
        score_filtered == filter_by_min_score(geo_filtered, threshold)
        title_filtered == filter_by_title_keywords(score_filtered, title_keywords)
    IN SortByScore(title_filtered, <<>>)

Match(id, job_id, profile_id, item) ==
    [id |-> id, job_id |-> job_id, profile_id |-> profile_id,
     score |-> item.score, reason |-> Reason(item)]

\* A lookup that never finds the stored record.
Lookup_Never(rows, job_id, profile_id) == {}

\* A lookup that settles for one of the stored records, as first() would.
Lookup_First(rows, job_id, profile_id) ==
    LET found == {m \in rows : m.job_id = job_id /\ m.profile_id = profile_id}
    IN IF found = {} THEN {} ELSE {CHOOSE m \in found : TRUE}

\* session.query(Match).filter_by(job_id=..., profile_id=...): the rows the
\* database holds for the pair (the session does not autoflush).
Lookup(rows, job_id, profile_id) ==
    {m \in rows : m.job_id = job_id /\ m.profile_id = profile_id}

\* An update that leaves the old reason in place.
UpdateExisting_ScoreOnly(existing, item) == [existing EXCEPT !.score = item.score]

\* existing.score = float(item["score"]); existing.reason = reason
UpdateExisting(existing, item) ==
    [existing EXCEPT !.score = item.score, !.reason = Reason(item)]

MaxId(rows) == IF rows = {} THEN 0
               ELSE CHOOSE i \in {r.id : r \in rows} : \A r \in rows : r.id <= i

RECURSIVE InsertAll(_, _)
InsertAll(rows, pending) ==
    IF pending = <<>> THEN rows
    ELSE InsertAll(rows \cup {[Head(pending) EXCEPT !.id = MaxId(rows) + 1]}, Tail(pending))

\* A commit against a matches table with a unique (job_id, profile_id).
CommitMatches_Unique(rows, dirty, pending) ==
    LET updated == {IF \E u \in dirty : u.id = r.id
                    THEN CHOOSE u \in dirty : u.id = r.id ELSE r : r \in rows}
        clash == \/ \E i \in 1..Len(pending) :
                       Lookup(updated, pending[i].job_id, pending[i].profile_id) # {}
                 \/ \E i \in 1..Len(pending) : \E j \in 1..Len(pending) :
                       /\ i # j /\ pending[i].job_id = pending[j].job_id
                       /\ pending[i].profile_id = pending[j].profile_id
    IN [ok |-> ~clash, rows |-> IF clash THEN rows ELSE InsertAll(updated, pending)]

\* A commit that replaces the table by what the run wrote.
CommitMatches_Replace(rows, dirty, pending) ==
    [ok |-> TRUE, rows |-> InsertAll(dirty, pending)]

\* session.commit(): UPDATE the modified rows by primary key, INSERT the new
\* ones. The matches table carries no unique constraint, so nothing is
\* rejected.
CommitMatches(rows, dirty, pending) ==
    LET updated == {IF \E u \in dirty : u.id = r.id
                    THEN CHOOSE u \in dirty : u.id = r.id ELSE r : r \in rows}
    IN [ok |-> TRUE, rows |-> InsertAll(updated, pending)]

\* A lookup that finds a profile under every id.
GetProfile_Always(profile_id) == profile_id

\* session.get(models.Profile, profile_id): the profile, or None (0).
GetProfile(profile_id) == IF profile_id \in Profiles THEN profile_id ELSE 0

Workers == {1, 2}
MRunIdle == [pc |-> "idle", profile_id |-> 0, ranked |-> <<>>, todo |-> <<>>,
             dirty |-> {}, pending |-> <<>>, matches_written |-> 0,
             created |-> 0, updated |-> 0, ret |-> 0, exc |-> NoneVal,
             \* what the run was called with and what it computed and read
             min_score |-> NoMinScore, title_keywords |-> <<>>,
             scores |-> [j \in JobIds |-> ScoreResult(0, 0, <<>>)]]

\* match_all up to the persistence loop: load the profile and the jobs,
\* score, filter, rank. The scores are what score() computes from the
\* descriptions and the profile of that moment.
MatchBegin(w, profile_id, min_score, scores, title_keywords) ==
    /\ mrun[w].pc \in {"idle", "done", "raised"}
    /\ LET threshold == IF min_score # NoMinScore THEN min_score ELSE settings.min_score
           ranked == Ranked(scores, threshold, title_keywords)
       IN IF GetProfile(profile_id) = 0
          THEN mrun' = [mrun EXCEPT ![w] = [MRunIdle EXCEPT !.pc = "raised",
                                               !.profile_id = profile_id,
                                               !.exc = "ValueError"]]
          ELSE mrun' = [mrun EXCEPT ![w] = [MRunIdle EXCEPT !.pc = "persist",
                                               !.profile_id = profile_id,
                                               !.min_score = min_score,
                                               !.title_keywords = title_keywords,
                                               !.scores = scores,
                                               !.ranked = ranked, !.todo = ranked]]
    /\ UNCHANGED <<matches, fetchVars, ingestVars, callVars>>

\* MatchBegin when no other run is in progress.
MatchBeginAlone(w, profile_id, min_score, scores, title_keywords) ==
    /\ \A v \in Workers \ {w} : mrun[v].pc # "persist"
    /\ MatchBegin(w, profile_id, min_score, scores, title_keywords)

\* One iteration of `for item in title_filtered`.
MatchPersist(w) ==
    /\ mrun[w].pc = "persist"
    /\ mrun[w].todo # <<>>
    /\ LET r == mrun[w]
           item == Head(r.todo)
           found == Lookup(matches, item.job, r.profile_id)
       IN IF Cardinality(found) > 1
          THEN \* one_or_none() raises MultipleResultsFound: rollback
               mrun' = [mrun EXCEPT ![w] = [MRunIdle EXCEPT !.pc = "raised",
                                               !.profile_id = r.profile_id,
                                               !.exc = "MultipleResultsFound"]]
          ELSE IF found # {}
          THEN LET existing == CHOOSE m \in found : TRUE IN
               mrun' = [mrun EXCEPT ![w] = [r EXCEPT
                          !.todo = Tail(@),
                          !.dirty = @ \cup {UpdateExisting(existing, item)},
                          !.matches_written = @ + 1]]
          ELSE mrun' = [mrun EXCEPT ![w] = [r EXCEPT
                          !.todo = Tail(@),
                          !.pending = Append(@, Match(0, item.job, r.profile_id, item)),
                          !.matches_written = @ + 1]]
    /\ UNCHANGED <<matches, fetchVars, ingestVars, callVars>>

\* return matches_written; session_scope() commits.
MatchCommit(w) ==
    /\ mrun[w].pc = "persist"
    /\ mrun[w].todo = <<>>
    /\ LET r == mrun[w]
           c == CommitMatches(matches, r.dirty, r.pending)
       IN IF c.ok
          THEN /\ matches' = c.rows
               /\ mrun' = [mrun EXCEPT ![w] = [MRunIdle EXCEPT !.pc = "done",
                                                  !.profile_id = r.profile_id,
                                                  !.created = Len(r.pending),
                                                  !.updated = Cardinality(r.dirty),
                                                  !.ret = r.matches_written]]
          ELSE /\ matches' = matches
               /\ mrun' = [mrun EXCEPT ![w] = [MRunIdle EXCEPT !.pc = "raised",
                                                  !.profile_id = r.profile_id,
                                                  !.exc = "IntegrityError"]]
    /\ UNCHANGED <<fetchVars, ingestVars, callVars>>

\* ==================================================================== parsing
\* A salary text is a sequence of lexical tokens: "$1" and "$2" are currency
\* amounts (what \$\d[\d,]*(?:\.\d+)? matches, worth 1 and 2), "k" the
\* letter k, "-" a range separator (-, en dash, em dash, to), " " white
\* space and "w" any other character.
SalaryTokens == {"$1", "$2", "k", "-", " ", "w"}
IsAmount(token) == token \in {"$1", "$2"}
AmountValue(token) == IF token = "$1" THEN 1 ELSE 2

\* _to_int: float(value), times 1000 with a k suffix, rounded.
to_int(value, suffix) == IF suffix THEN value * 1000 ELSE value

\* \s*: the first position at or after i that holds no white space.
RECURSIVE SkipSpaces(_, _)
SkipSpaces(text, i) ==
    IF i <= Len(text) /\ text[i] = " " THEN SkipSpaces(text, i + 1) ELSE i

At(text, i) == IF i >= 1 /\ i <= Len(text) THEN text[i] ELSE ""

\* _RANGE_PATTERN tried at position i.
RangeAt(text, i) ==
    LET afterLow == SkipSpaces(text, i + 1)
        lowsuffix == At(text, afterLow) = "k"
        sep == IF lowsuffix THEN SkipSpaces(text, afterLow + 1) ELSE afterLow
        high == SkipSpaces(text, sep + 1)
        afterHigh == SkipSpaces(text, high + 1)
    IN [matched |-> /\ IsAmount(At(text, i))
                    /\ At(text, sep) = "-"
                    /\ IsAmount(At(text, high)),
        low |-> At(text, i), lowsuffix |-> lowsuffix,
        high |-> At(text, high), highsuffix |-> At(text, afterHigh) = "k"]

\* _RANGE_PATTERN.search(text): the leftmost position with a match, 0 if none.
RangeSearch(text) ==
    IF \E i \in 1..Len(text) : RangeAt(text, i).matched
    THEN CHOOSE i \in 1..Len(text) :
            /\ RangeAt(text, i).matched
            /\ \A j \in 1..(i - 1) : ~RangeAt(text, j).matched
    ELSE 0

\* _SINGLE_PATTERN.finditer(text)[0]: the first currency amount, 0 if none.
FirstSingle(text) ==
    IF \E i \in 1..Len(text) : IsAmount(text[i])
    THEN CHOOSE i \in 1..Len(text) :
            IsAmount(text[i]) /\ \A j \in 1..(i - 1) : ~IsAmount(text[j])
    ELSE 0

NoSalary == [found |-> FALSE, low |-> 0, high |-> 0]       \* None
Salary(low, high) == [found |-> TRUE, low |-> low, high |-> high]

\* An extraction that returns the two amounts in text order.
extract_salary_range_NoSwap(text) ==
    IF text = <<>> THEN NoSalary
    ELSE IF RangeSearch(text) # 0
    THEN LET match == RangeAt(text, RangeSearch(text))
         IN Salary(to_int(AmountValue(match.low), match.lowsuffix),
                   to_int(AmountValue(match.high), match.highsuffix))
    ELSE IF FirstSingle(text) = 0 THEN NoSalary
    ELSE LET first == FirstSingle(text)
             value == to_int(AmountValue(text[first]), At(text, first + 1) = "k")
         IN Salary(value, value)

extract_salary_range(text) ==
    IF text = <<>> THEN NoSalary
    ELSE IF RangeSearch(text) # 0
    THEN LET match == RangeAt(text, RangeSearch(text))
             low == to_int(AmountValue(match.low), match.lowsuffix)
             high == to_int(AmountValue(match.high), match.highsuffix)
         IN IF high < low THEN Salary(high, low) ELSE Salary(low, high)
    ELSE IF FirstSingle(text) = 0 THEN NoSalary
    ELSE LET first == FirstSingle(text)
             value == to_int(AmountValue(text[first]), At(text, first + 1) = "k")
         IN Salary(value, value)

\* re.split(r"[,/|]", str) and str.split(","): the parts between the
\* separators, the empty ones included.
RECURSIVE SplitOn(_, _, _)
SplitOn(str, seps, part) ==
    IF str = <<>> THEN <<part>>
    ELSE IF Head(str) \in seps THEN <<part>> \o SplitOn(Tail(str), seps, <<>>)
    ELSE SplitOn(Tail(str), seps, Append(part, Head(str)))

\* sep.join(parts)
RECURSIVE Join(_, _)
Join(parts, sep) ==
    IF parts = <<>> THEN <<>>
    ELSE IF Len(parts) = 1 THEN Head(parts)
    ELSE Head(parts) \o sep \o Join(Tail(parts), sep)

\* list(dict.fromkeys(tokens)): the first occurrence of every token, in order.
RECURSIVE FromKeys(_, _)
FromKeys(tokens, seen) ==
    IF tokens = <<>> THEN <<>>
    ELSE IF Head(tokens) \in seen THEN FromKeys(Tail(tokens), seen)
    ELSE <<Head(tokens)>> \o FromKeys(Tail(tokens), seen \cup {Head(tokens)})

\* normalize_location._tokenise
_tokenise(location) == Normalize(SplitOn(location, {",", "/", "|"}, <<>>))

REMOTE_KEYWORDS ==
    << <<"r", "e", "m", "o", "t", "e">>,
       <<"a", "n", "y", "w", "h", "e", "r", "e">>,
       <<"d", "i", "s", "t", "r", "i", "b", "u", "t", "e", "d">> >>
HYBRID_KEYWORDS ==
    << <<"h", "y", "b", "r", "i", "d">>,
       <<"f", "l", "e", "x", "i", "b", "l", "e">> >>
AnyKeyword(keywords, lowered) ==
    \E k \in 1..Len(keywords) : Contains(lowered, keywords[k])

RemoteText == <<"R", "e", "m", "o", "t", "e">>
UnknownText == <<"U", "n", "k", "n", "o", "w", "n">>
RemotePrefix == RemoteText \o <<" ", "-", " ">>
HybridPrefix == <<"H", "y", "b", "r", "i", "d", " ", "-", " ">>

\* A display string that prefixes every remote location that has tokens.
Normalized_AlwaysPrefix(tokens, kind, is_remote) ==
    LET normalized == IF tokens = <<>> /\ is_remote THEN RemoteText
                      ELSE IF tokens # <<>> THEN Join(FromKeys(tokens, {}), <<",", " ">>)
                      ELSE UnknownText
    IN IF kind = "hybrid" /\ normalized # UnknownText THEN HybridPrefix \o normalized
       ELSE IF is_remote /\ tokens # <<>> THEN RemotePrefix \o normalized
       ELSE normalized

\* normalize_location: the display string, built from the tokens and then
\* prefixed.
Normalized(tokens, kind, is_remote) ==
    LET normalized == IF tokens = <<>> /\ is_remote THEN RemoteText
                      ELSE IF tokens # <<>> THEN Join(FromKeys(tokens, {}), <<",", " ">>)
                      ELSE UnknownText
    IN IF kind = "hybrid" /\ normalized # UnknownText THEN HybridPrefix \o normalized
       ELSE IF is_remote /\ normalized # RemoteText THEN RemotePrefix \o normalized
       ELSE normalized

normalize_location(location) ==
    LET raw == Strip(location)
        lowered == Lower(raw)
        is_remote == AnyKeyword(REMOTE_KEYWORDS, lowered)
        is_hybrid == ~is_remote /\ AnyKeyword(HYBRID_KEYWORDS, lowered)
        kind == IF is_remote THEN "remote" ELSE IF is_hybrid THEN "hybrid" ELSE "on-site"
        tokens == _tokenise(raw)
    IN [raw |-> raw,
        normalized |-> Normalized(tokens, kind, is_remote),
        kind |-> kind,
        is_remote |-> is_remote]

\* normalize_payload, the tags column: a string is split on commas, any
\* other iterable is taken element by element; every part is stripped,
\* the empty ones dropped, the rest joined by commas.
NormalizeTags(tags) ==
    LET tag_list == IF tags.is_str THEN Normalize(SplitOn(tags.str, {","}, <<>>))
                    ELSE Normalize(tags.list)
    IN Join(tag_list, <<",">>)

\* Nullable integer columns.
Null == [null |-> TRUE, value |-> 0]
IntValue(v) == [null |-> FALSE, value |-> v]

\* normalize_payload, for the remote flag and the salary bounds. A payload
\* carries the "remote" key or not (has_remote); salary_range is the
\* explicit pair or None; salary_text, description_html and
\* description_text are token texts, empty when absent.
NormalizeDetails(payload) ==
    LET location_info == normalize_location(payload.location)
        salary_text == IF payload.salary_text # <<>> THEN payload.salary_text
                       ELSE payload.description_html \o <<" ">> \o payload.description_text
        salary_range == IF payload.salary_range.found THEN payload.salary_range
                        ELSE extract_salary_range(salary_text)
    IN [remote |-> IF payload.has_remote THEN payload.remote
                   ELSE location_info.is_remote,
        salary_min |-> IF salary_range.found THEN IntValue(salary_range.low) ELSE Null,
        salary_max |-> IF salary_range.found THEN IntValue(salary_range.high) ELSE Null]

\* ------------------------------------------------------------------ scorer
\* match_all: the keywords of the profile, or the configured ones when the
\* profile has none.
KeywordCandidates(profile_keywords, match_keywords) ==
    LET keyword_candidates == Normalize(SplitOn(profile_keywords, {","}, <<>>))
    IN IF keyword_candidates = <<>> THEN match_keywords ELSE keyword_candidates

_normalize_keywords(keywords) == Normalize(keywords)

\* Hits found by comparing the keyword as written with the lowered text.
RECURSIVE _keyword_hits_CaseSensitive(_, _)
_keyword_hits_CaseSensitive(text, keywords) ==
    IF keywords = <<>> THEN <<>>
    ELSE (IF Contains(Lower(text), Head(keywords)) THEN <<Head(keywords)>> ELSE <<>>)
         \o _keyword_hits_CaseSensitive(text, Tail(keywords))

RECURSIVE _keyword_hits(_, _)
_keyword_hits(text, keywords) ==
    IF keywords = <<>> THEN <<>>
    ELSE (IF Contains(Lower(text), Lower(Head(keywords))) THEN <<Head(keywords)>> ELSE <<>>)
         \o _keyword_hits(text, Tail(keywords))

\* A ratio of two naturals; 0.0 is Ratio(0, 1).
Ratio(num, den) == [num |-> num, den |-> den]

\* score, the keyword component: keyword_weight and matched_keywords of the
\* ScoreResult.
score(job_text, keywords_list) ==
    LET keywords == _normalize_keywords(keywords_list)
        keyword_hits == _keyword_hits(job_text, keywords)
        keyword_ratio == IF keywords # <<>> THEN Ratio(Len(keyword_hits), Len(keywords))
                         ELSE Ratio(0, 1)
    IN [keyword_weight |-> keyword_ratio, matched_keywords |-> keyword_hits]

\* ------------------------------------------------------ get_default_profile
\* A profile row is its id and its (unique) name; the result of a lookup is
\* a row id, 0 for None, or the exception it raised.
ProfileFound(id) == [raised |-> FALSE, exc |-> NoneVal, id |-> id]
ProfileRaised(exc) == [raised |-> TRUE, exc |-> exc, id |-> 0]

\* Result.scalar_one_or_none(): None without rows, the row when there is
\* exactly one, MultipleResultsFound otherwise.
ScalarOneOrNone(rows) ==
    IF rows = {} THEN ProfileFound(0)
    ELSE IF Cardinality(rows) = 1 THEN ProfileFound((CHOOSE r \in rows : TRUE).id)
    ELSE ProfileRaised("MultipleResultsFound")

\* select(Profile).order_by(Profile.id), read with scalar_one_or_none().
FirstProfile(rows) == ScalarOneOrNone(rows)

get_default_profile(profiles, default_profile_name) ==
    LET named == IF default_profile_name # ""
                 THEN ScalarOneOrNone({r \in profiles : r.name = default_profile_name})
                 ELSE ProfileFound(0)
    IN IF named.raised \/ named.id # 0 THEN named
       ELSE FirstProfile(profiles)

\* ============================================================ specifications
CallIdle == [fn |-> "idle"]

InitFetch ==
    /\ feed \in FetchFeeds
    /\ srvTag = "e1"
    /\ etag = NoneVal
    /\ http = HttpIdle
    /\ fetch = FetchIdle
    /\ dialect = "sqlite" /\ db = {} /\ sess = SessClosed /\ run = RunIdle /\ hist = HistNone
    /\ matches = {} /\ mrun = [w \in Workers |-> MRunIdle]
    /\ call = CallIdle

Limits == {NoLimit} \cup (0..MaxLimit)

NextFetch ==
    \/ \E a \in Adapters, l \in Limits, p \in BOOLEAN :
          /\ (a # "workday" => p)
          /\ FetchCall(a, l, p)
    \/ \E m \in 0..MaxRetries : DirectGet(m)
    \/ HttpAttempt
    \/ HttpLoopExit
    \/ FetchResume
    \/ SourceChanges

\* get() and fetch() are straight-line code around blocking calls: once
\* entered they keep running.
SpecFetch ==
    /\ InitFetch /\ [][NextFetch]_vars
    /\ WF_vars(HttpAttempt) /\ WF_vars(HttpLoopExit) /\ WF_vars(FetchResume)

InitIngest ==
    /\ feed \in IngestFeeds
    /\ dialect \in {"sqlite", "postgresql"}
    /\ db = {} /\ sess = SessClosed /\ run = RunIdle /\ hist = HistNone
    /\ srvTag = "e1" /\ etag = NoneVal /\ http = HttpIdle /\ fetch = FetchIdle
    /\ matches = {} /\ mrun = [w \in Workers |-> MRunIdle]
    /\ call = CallIdle

IngestLimits == {NoLimit, 1}

NextIngest ==
    \/ \E l \in IngestLimits, d \in BOOLEAN : BeginIngest(l, d)
    \/ \E p \in IngestPostings : BeginUpsert(ShapePosting("greenhouse", p))
    \/ IngestItem
    \/ IngestFinish
    \/ SourceRepublishes

SpecIngest == InitIngest /\ [][NextIngest]_vars

\* Seed files and `sources` arguments of the ingest_all runs: "rss" and
\* "foo" are identifiers _build_ingestor does not know, "" is an entry
\* without its board / company.
EntryLists == {<<>>, <<"b">>, <<"">>}
BatchConfigs ==
    {[greenhouse |-> g, lever |-> l, rss |-> <<"b">>] :
        g \in EntryLists, l \in EntryLists}
BatchSources ==
    {<<>>, <<"greenhouse">>, <<"foo">>, <<"greenhouse", "greenhouse">>,
     <<"greenhouse", "lever">>, <<"lever", "rss">>}
BatchFeeds ==
    {<<>>, <<Posting(1, "A", NoneVal)>>,
     <<Posting(1, "A", "2024-01-01T00:00:00Z")>>,
     <<Posting(1, "A", NoneVal), Posting(2, "A", NoneVal)>>,
     <<Posting(1, "A", NoneVal), Posting(1, "B", NoneVal)>>}

InitBatch ==
    /\ feed \in BatchFeeds
    /\ dialect = "sqlite"
    /\ db = {} /\ sess = SessClosed /\ run = RunIdle /\ hist = HistNone
    /\ srvTag = "e1" /\ etag = NoneVal /\ http = HttpIdle /\ fetch = FetchIdle
    /\ matches = {} /\ mrun = [w \in Workers |-> MRunIdle]
    /\ call = CallIdle

NextBatch ==
    \/ \E s \in BatchSources, c \in BatchConfigs, l \in IngestLimits, d \in BOOLEAN :
          BatchBegin(s, c, l, d)
    \/ BatchBuild
    \/ BatchFetch
    \/ BatchItem
    \/ BatchFlush
    \/ BatchCommit

SpecBatch == InitBatch /\ [][NextBatch]_vars

\* filter_by_geo called on its own.
GeoLocations == {<<>>, <<"U", "S">>, <<"u", "s">>, <<"D", "E">>, <<"U">>}
GeoJobs == {[remote |-> r, location |-> l] : r \in BOOLEAN, l \in GeoLocations}
GeoRegions ==
    {<<>>, << <<>> >>, << <<" ">> >>, << <<"U", "S">> >>, << <<"u", "s">> >>,
     << <<" ", "U", "S", " ">> >>, << <<"D", "E">>, <<"U", "S">> >>}
JobLists(S) == UNION {[1..n -> S] : n \in 0..MaxJobs}

\* The call: the arguments are on the frame, the result is computed.
CallFilterByGeo ==
    /\ call.fn = "args"
    /\ call' = [call EXCEPT !.fn = "filter_by_geo",
                            !.out = filter_by_geo(call.jobs, call.allowed_regions)]
    /\ UNCHANGED <<fetchVars, ingestVars, matchVars>>

InitGeo ==
    /\ call \in {[fn |-> "args", jobs |-> jobs, allowed_regions |-> regions, out |-> <<>>] :
                    jobs \in JobLists(GeoJobs), regions \in GeoRegions}
    /\ feed = <<>> /\ srvTag = "e1" /\ etag = NoneVal /\ http = HttpIdle /\ fetch = FetchIdle
    /\ dialect = "sqlite" /\ db = {} /\ sess = SessClosed /\ run = RunIdle /\ hist = HistNone
    /\ matches = {} /\ mrun = [w \in Workers |-> MRunIdle]

NextGeo == CallFilterByGeo

SpecGeo == InitGeo /\ [][NextGeo]_vars

\* Every variable but the frame of the helper call, at rest.
RestIdle ==
    /\ feed = <<>> /\ srvTag = "e1" /\ etag = NoneVal /\ http = HttpIdle /\ fetch = FetchIdle
    /\ dialect = "sqlite" /\ db = {} /\ sess = SessClosed /\ run = RunIdle /\ hist = HistNone
    /\ matches = {} /\ mrun = [w \in Workers |-> MRunIdle]

\* The sort of match_all on its own: the candidates in read order, each
\* with the position it was read at.
SortScores == {0, 40, 60, 100}
SortInputs ==
    UNION {{[i \in 1..n |-> [job |-> i, score |-> sc[i]]] : sc \in [1..n -> SortScores]} :
              n \in 0..(MaxJobs + 1)}

CallSort ==
    /\ call.fn = "args"
    /\ call' = [call EXCEPT !.fn = "sort", !.out = SortByScore(call.items, <<>>)]
    /\ UNCHANGED <<fetchVars, ingestVars, matchVars>>

InitSort ==
    /\ call \in {[fn |-> "args", items |-> items, out |-> <<>>] : items \in SortInputs}
    /\ RestIdle

NextSort == CallSort

SpecSort == InitSort /\ [][NextSort]_vars

\* extract_salary_range called on its own.
SalaryTexts == UNION {[1..n -> SalaryTokens] : n \in 0..MaxTokens}

CallExtractSalary ==
    /\ call.fn = "args"
    /\ call' = [call EXCEPT !.fn = "extract_salary_range",
                            !.out = extract_salary_range(call.text)]
    /\ UNCHANGED <<fetchVars, ingestVars, matchVars>>

InitSalary ==
    /\ call \in {[fn |-> "args", text |-> text, out |-> NoSalary] : text \in SalaryTexts}
    /\ RestIdle

NextSalary == CallExtractSalary

SpecSalary == InitSalary /\ [][NextSalary]_vars

\* normalize_payload and the Job upsert_job builds from it, on their own.
\* The descriptions carry no markup, so clean_html leaves them as they are.
DetailLocations ==
    {<<>>, <<"D", "E">>, <<"R", "e", "m", "o", "t", "e">>,
     <<"A", "n", "y", "w", "h", "e", "r", "e">>,
     <<"r", "e", "m", "o", "t", "e", " ", "U", "S">>}
DetailRemoteFlags ==
    {[has_remote |-> FALSE, remote |-> FALSE], [has_remote |-> TRUE, remote |-> FALSE],
     [has_remote |-> TRUE, remote |-> TRUE]}
DetailSalaryRanges == {NoSalary, Salary(1, 1), Salary(1, 2), Salary(2, 1)}
DetailSalaryTexts == {<<>>, <<"$2", "k", " ", "-", " ", "$1", "k">>, <<"$1", "k">>}
DetailDescriptions == {<<>>, <<"w", " ", "$2">>, <<"$1", "-", "$2">>}
DetailPayloads ==
    {[location |-> l, has_remote |-> f.has_remote, remote |-> f.remote,
      salary_range |-> sr, salary_text |-> st,
      description_html |-> dh, description_text |-> dh] :
        l \in DetailLocations, f \in DetailRemoteFlags, sr \in DetailSalaryRanges,
        st \in DetailSalaryTexts, dh \in DetailDescriptions}

CallNormalizePayload ==
    /\ call.fn = "args"
    /\ call' = [call EXCEPT !.fn = "normalize_payload",
                            !.out = NormalizeDetails(call.payload)]
    /\ UNCHANGED <<fetchVars, ingestVars, matchVars>>

\* upsert_job: Job(**normalized), or setattr of every differing field.
CallStoreJob ==
    /\ call.fn = "normalize_payload"
    /\ call' = [call EXCEPT !.fn = "upsert_job", !.job = call.out]
    /\ UNCHANGED <<fetchVars, ingestVars, matchVars>>

NoDetails == [remote |-> FALSE, salary_min |-> Null, salary_max |-> Null]

InitNormalize ==
    /\ call \in {[fn |-> "args", payload |-> payload, out |-> NoDetails, job |-> NoDetails] :
                    payload \in DetailPayloads}
    /\ RestIdle

NextNormalize == CallNormalizePayload \/ CallStoreJob

SpecNormalize == InitNormalize /\ [][NextNormalize]_vars

\* normalize_location called on its own: up to MaxParts words, with one
\* separator between two of them.
MaxParts == 2
LocationWords ==
    {<<>>, <<" ">>, RemoteText, <<"r", "e", "m", "o", "t", "e">>, <<" ", "U", "S">>,
     <<"H", "y", "b", "r", "i", "d">>, <<"D", "E", " ">>, UnknownText}
Separators == {<<",">>, <<"/">>, <<"|">>}
RECURSIVE Locations(_)
Locations(n) ==
    IF n = 0 THEN {<<>>}
    ELSE IF n = 1 THEN LocationWords
    ELSE {l \o sep \o w : l \in Locations(n - 1), sep \in Separators, w \in LocationWords}
LocationInputs == UNION {Locations(n) : n \in 0..MaxParts}

CallNormalizeLocation ==
    /\ call.fn = "args"
    /\ call' = [call EXCEPT !.fn = "normalize_location",
                            !.out = normalize_location(call.location)]
    /\ UNCHANGED <<fetchVars, ingestVars, matchVars>>

InitLocation ==
    /\ call \in {[fn |-> "args", location |-> location, out |-> normalize_location(<<>>)] :
                    location \in LocationInputs}
    /\ RestIdle

NextLocation == CallNormalizeLocation

SpecLocation == InitLocation /\ [][NextLocation]_vars

\* The tags of a payload: a comma-separated string of up to MaxTagChars
\* characters, or a list of up to MaxTags strings.
MaxTagChars == 4
MaxTags == 3
TagChars == {"a", "b", ",", " "}
TagWords == {<<>>, <<"a">>, <<" ", "a">>, <<"b">>, <<" ">>}
TagInputs ==
    {[is_str |-> TRUE, str |-> str, list |-> <<>>] :
        str \in UNION {[1..n -> TagChars] : n \in 0..MaxTagChars}}
    \cup {[is_str |-> FALSE, str |-> <<>>, list |-> list] :
        list \in UNION {[1..n -> TagWords] : n \in 0..MaxTags}}

CallNormalizeTags ==
    /\ call.fn = "args"
    /\ call' = [call EXCEPT !.fn = "normalize_payload", !.out = NormalizeTags(call.tags)]
    /\ UNCHANGED <<fetchVars, ingestVars, matchVars>>

InitTags ==
    /\ call \in {[fn |-> "args", tags |-> tags, out |-> <<>>] : tags \in TagInputs}
    /\ RestIdle

NextTags == CallNormalizeTags

SpecTags == InitTags /\ [][NextTags]_vars

\* fetch() of the JSON adapters around one client.get.
JsonAdapters == {"greenhouse", "lever", "workday"}
MaxElements == 2
BodyElements == {NotAnObject, Element(TRUE, Posting(1, "A", NoneVal)),
                 Element(TRUE, Posting(2, "A", NoneVal))}
Bodies ==
    {Body(c, "", <<>>) : c \in {"invalid", "scalar"}}
    \cup {Body("list", "", e) : e \in UNION {[1..n -> BodyElements] : n \in 0..MaxElements}}
    \cup {Body("dict", k, e) : k \in {"jobs", "jobPostings", "data"},
                               e \in UNION {[1..n -> BodyElements] : n \in 0..MaxElements}}
GetOutcomes ==
    {[raised |-> TRUE, exc |-> e, body |-> Body("invalid", "", <<>>)] :
        e \in {"HTTPStatusError", "AttributeError", "RuntimeError"}}
    \cup {[raised |-> FALSE, exc |-> NoneVal, body |-> b] : b \in Bodies}

CallFetch ==
    /\ call.fn = "args"
    /\ call' = [call EXCEPT !.fn = "fetch",
                            !.out = Fetch(call.adapter, call.public, call.got, call.limit)]
    /\ UNCHANGED <<fetchVars, ingestVars, matchVars>>

InitShape ==
    /\ call \in {[fn |-> "args", adapter |-> a, public |-> p, got |-> g, limit |-> l,
                  out |-> FetchReturned(<<>>)] :
                    a \in JsonAdapters, p \in BOOLEAN, g \in GetOutcomes,
                    l \in {NoLimit, 1}}
    /\ (call.adapter # "workday" => call.public)
    /\ RestIdle

NextShape == CallFetch

SpecShape == InitShape /\ [][NextShape]_vars

\* The keyword component of one score of match_all: the keywords column
\* of the profile, the configured match_keywords and the description of
\* the job.
PHP == <<"P", "H", "P">>
ProfileKeywords ==
    {<<>>, <<" ", ",">>, PHP, PHP \o <<",", " ", "u", "s">>,
     <<"u", "s", ",">> \o PHP, PHP \o <<",">> \o PHP}
MatchKeywords == {<<>>, << <<"p", "h", "p">> >>, << <<"U", "S">>, <<"p", "h", "p">> >>}
JobTexts ==
    {<<>>, <<"p", "h", "p">>, PHP, <<"a", " ">> \o PHP \o <<" ", "U", "s">>, <<"U", "S">>,
     <<"p", "h">>, <<"h", "p", "u", "s">>, <<"u", "s", "p", "h", "p">>, <<"D", "E">>}

CallScore ==
    /\ call.fn = "args"
    /\ call' = [call EXCEPT !.fn = "score",
                            !.out = score(call.job_text,
                                          KeywordCandidates(call.profile_keywords,
                                                            call.match_keywords))]
    /\ UNCHANGED <<fetchVars, ingestVars, matchVars>>

InitScore ==
    /\ call \in {[fn |-> "args", job_text |-> t, profile_keywords |-> p, match_keywords |-> m,
                  out |-> score(<<>>, <<>>)] :
                    t \in JobTexts, p \in ProfileKeywords, m \in MatchKeywords}
    /\ RestIdle

NextScore == CallScore

SpecScore == InitScore /\ [][NextScore]_vars

\* get_default_profile on a profiles table of up to MaxProfiles rows with
\* distinct ids and distinct names.
MaxProfiles == 3
ProfileNames == {"a", "b", "c"}
ProfileTables ==
    {{[id |-> i, name |-> f[i]] : i \in ids} :
        ids \in SUBSET (1..MaxProfiles),
        f \in {g \in [1..MaxProfiles -> ProfileNames] :
                  \A i, j \in 1..MaxProfiles : g[i] = g[j] => i = j}}
DefaultProfileNames == {"", "b", "z"}

CallGetDefaultProfile ==
    /\ call.fn = "args"
    /\ call' = [call EXCEPT !.fn = "get_default_profile",
                            !.out = get_default_profile(call.profiles,
                                                        call.default_profile_name)]
    /\ UNCHANGED <<fetchVars, ingestVars, matchVars>>

InitProfile ==
    /\ call \in {[fn |-> "args", profiles |-> t, default_profile_name |-> n,
                  out |-> ProfileFound(0)] :
                    t \in ProfileTables, n \in DefaultProfileNames}
    /\ RestIdle

NextProfile == CallGetDefaultProfile

SpecProfile == InitProfile /\ [][NextProfile]_vars

InitMatch ==
    /\ matches = {}
    /\ mrun = [w \in Workers |-> MRunIdle]
    /\ call = CallIdle
    /\ feed = <<>> /\ srvTag = "e1" /\ etag = NoneVal /\ http = HttpIdle /\ fetch = FetchIdle
    /\ dialect = "sqlite" /\ db = {} /\ sess = SessClosed /\ run = RunIdle /\ hist = HistNone

MinScores == {NoMinScore, 0}
\* TITLE_KEYWORDS of the deployment: the configured list, or none.
TitleKeywords == {settings.title_keywords, <<>>}

\* match_all runs that may interleave (two worker processes), called with
\* min_score = 0 in a deployment without title keywords; the job the geo
\* filter drops scores the same in every run.
RaceScores == {sc \in [JobIds -> ScoreResults] : sc[3] = ScoreResult(40, 0, <<"php">>)}

NextMatch ==
    \/ \E w \in Workers, p \in ProfileIds, sc \in RaceScores :
          MatchBegin(w, p, 0, sc, <<>>)
    \/ \E w \in Workers : MatchPersist(w)
    \/ \E w \in Workers : MatchCommit(w)

SpecMatch == InitMatch /\ [][NextMatch]_vars

\* match_all runs executed one at a time.
NextMatchSeq ==
    \/ \E w \in Workers, p \in ProfileIds, ms \in MinScores, sc \in [JobIds -> ScoreResults],
          kw \in TitleKeywords :
          MatchBeginAlone(w, p, ms, sc, kw)
    \/ \E w \in Workers : MatchPersist(w)
    \/ \E w \in Workers : MatchCommit(w)

SpecMatchSeq == InitMatch /\ [][NextMatchSeq]_vars

\* match_all runs of one worker for the stored profiles, one at a time.
ProfileScores == {sc \in [JobIds -> ScoreResults] : sc[3] = ScoreResult(40, 0, <<"php">>)}
NextMatchProfiles ==
    \/ \E p \in Profiles, ms \in MinScores, sc \in ProfileScores, kw \in TitleKeywords :
          MatchBeginAlone(1, p, ms, sc, kw)
    \/ MatchPersist(1)
    \/ MatchCommit(1)

SpecMatchProfiles == InitMatch /\ [][NextMatchProfiles]_vars

\* match_all runs of profile 1 that may interleave, called without
\* min_score (the configured threshold applies) in a deployment without
\* title keywords: a run writes the jobs that score above the threshold.
NextMatchDup ==
    \/ \E w \in Workers, sc \in RaceScores : MatchBegin(w, 1, NoMinScore, sc, <<>>)
    \/ \E w \in Workers : MatchPersist(w)
    \/ \E w \in Workers : MatchCommit(w)

SpecMatchDup == InitMatch /\ [][NextMatchDup]_vars

\* ===================================================================== claims
HttpDone == http.pc \in {"returned", "raised"}
LastStatus == http.statuses[Len(http.statuses)]
IsErrorStatus(status) == status \in 400..599

\* C1: an ingestion run that repeats the previous committed run on the same
\* source data, with no other writer in between, reports inserted = 0 and
\* updated = 0 and leaves the stored jobs as they were.
C1_ReingestIsNoOp ==
    (run.pc = "committed" /\ run.kind = "ingest" /\ run.repeat)
      => /\ run.result.inserted = 0
         /\ run.result.updated = 0
         /\ ~run.wrote

\* C2: upsert_job returns "inserted" and adds exactly one job when the
\* lookup finds no job with the payload's (source, external_id); returns
\* "updated" and leaves every tracked field of the found job at the new
\* value when one differs; returns "unchanged" and modifies nothing when
\* all tracked fields are equal.
UpsertStep == run.pc = "loop" /\ run.batch # <<>> /\ ~run.dry_run /\ run' # run
C2_UpsertContract ==
    [][UpsertStep =>
        LET normalized == NormalizePayload(Head(run.batch))
            found == {r \in sess.rows : SameKey(r, normalized)}
        IN /\ found = {} =>
                /\ run'.status = "inserted"
                /\ sess'.rows = sess.rows
                /\ sess'.pending = Append(sess.pending, Job(0, normalized))
           /\ \A e \in found :
                IF \E f \in updatable_fields : e[f] # normalized[f]
                THEN /\ run'.status = "updated"
                     /\ sess'.pending = sess.pending
                     /\ \E e2 \in sess'.rows :
                          /\ e2.id = e.id /\ SameKey(e2, e)
                          /\ \A f \in updatable_fields : e2[f] = normalized[f]
                          /\ sess'.rows \ {e2} = sess.rows \ {e}
                ELSE /\ run'.status = "unchanged"
                     /\ sess' = sess
           /\ db' = db]_vars

C2_Witness ==
    /\ run.pc = "loop"
    /\ run.status = "updated"
    /\ run.payload.title = "A"
    /\ run.payload.posted_at # NoneVal
    /\ \E r \in sess.rows : r.title = "A" /\ r.posted_at = DateTime(1, "UTC")

\* C3: the jobs table never holds two rows with the same
\* (source, external_id).
C3_NaturalKeyUnique ==
    \A a \in db : \A b \in db : SameKey(a, b) => a = b

C3_Witness ==
    /\ run.pc = "raised"
    /\ run.exc = "IntegrityError"
    /\ run.result.inserted = 2
    /\ db # {}

SamePair(a, b) == a.job_id = b.job_id /\ a.profile_id = b.profile_id
CommitStep(w) == mrun[w].pc = "persist" /\ mrun[w].todo = <<>> /\ mrun'[w] # mrun[w]

\* C4: with match_all runs executed one at a time, the matches table holds
\* at most one record per (job_id, profile_id).
C4_OneMatchPerPair ==
    \A a \in matches : \A b \in matches : SamePair(a, b) => a = b

C4_Witness ==
    \E w \in Workers :
        /\ mrun[w].pc = "done"
        /\ mrun[w].updated >= 1
        /\ \E m \in matches : m.profile_id = mrun[w].profile_id

\* C5: nothing protects interleaved runs: when a run commits a Match it
\* created after finding none, and the other run has meanwhile committed a
\* record for the same pair, the commit is accepted and the table then holds
\* two records for that pair.
C5_RaceUnprotected ==
    [][\A w \in Workers : CommitStep(w) =>
          \A i \in 1..Len(mrun[w].pending) :
             LET p == mrun[w].pending[i] IN
             Lookup(matches, p.job_id, p.profile_id) # {} =>
                /\ mrun'[w].pc = "done"
                /\ Cardinality(Lookup(matches', p.job_id, p.profile_id)) >= 2]_vars

C5_Witness ==
    \E a \in matches : \E b \in matches : SamePair(a, b) /\ a # b

\* C6: when a run (executed alone) commits, every ranked survivor has
\* exactly one Match record carrying the survivor's score and reason: the
\* record that existed before, overwritten in place, or else a new one; and
\* the value returned is created + updated = number of ranked survivors.
C6_PersistContract ==
    [][\A w \in Workers : CommitStep(w) =>
          LET r == mrun[w]
              Old(i) == Lookup(matches, r.ranked[i].job, r.profile_id)
              New(i) == Lookup(matches', r.ranked[i].job, r.profile_id)
              n == Len(r.ranked)
          IN /\ mrun'[w].pc = "done"
             /\ \A i \in 1..n :
                   /\ Cardinality(New(i)) = 1
                   /\ \A m \in New(i) : /\ m.score = r.ranked[i].score
                                        /\ m.reason = Reason(r.ranked[i])
                   /\ Old(i) # {} => {m.id : m \in New(i)} = {m.id : m \in Old(i)}
                   /\ Old(i) = {} => \A m \in New(i) : \A x \in matches : x.id # m.id
             /\ mrun'[w].created = Cardinality({i \in 1..n : Old(i) = {}})
             /\ mrun'[w].updated = Cardinality({i \in 1..n : Old(i) # {}})
             /\ mrun'[w].ret = mrun'[w].created + mrun'[w].updated
             /\ mrun'[w].ret = n]_vars

C6_Witness ==
    \E w \in Workers :
        /\ mrun[w].pc = "done"
        /\ mrun[w].created = 1
        /\ mrun[w].updated = 1
        /\ mrun[w].ret = 2

\* C7: HttpClient.get sends at most max_retries requests; every response
\* before the last one had a retryable status and was followed by one sleep,
\* the sleeps being 0.5 s, 1.0 s, ... (doubling); a retryable status on the
\* last allowed attempt makes the call raise; every call ends by returning
\* or raising.
C7_Bounded ==
    /\ Len(http.statuses) <= http.max_retries
    /\ \A i \in 1..Len(http.sleeps) :
          /\ http.sleeps[i] = InitialDelay * 2^(i - 1)
          /\ http.statuses[i] \in RETRYABLE_STATUS_CODES
    /\ Len(http.sleeps) = IF HttpDone /\ http.statuses # <<>>
                          THEN Len(http.statuses) - 1
                          ELSE Len(http.statuses)
    /\ (/\ HttpDone
        /\ http.statuses # <<>>
        /\ Len(http.statuses) = http.max_retries
        /\ LastStatus \in RETRYABLE_STATUS_CODES) => http.pc = "raised"
C7_Terminates == (http.pc = "loop") ~> HttpDone
C7_RetryBounded == []C7_Bounded /\ C7_Terminates

C7_Witness ==
    /\ http.pc = "raised"
    /\ http.max_retries = DefaultMaxRetries
    /\ http.statuses = <<503, 429, 503>>
    /\ http.sleeps = <<500, 1000>>

\* C8: a response with a non-retryable error status ends the call at once
\* by raising, with no sleep and no request after it (one request and no
\* sleep at all when it is the first response), and a call that returns
\* never hands back a response with an error status.
C8_NonRetryableRaises ==
    /\ (http.pc = "loop" =>
          \A i \in 1..Len(http.statuses) : ~(IsErrorStatus(http.statuses[i])
                /\ http.statuses[i] \notin RETRYABLE_STATUS_CODES))
    /\ (/\ HttpDone
        /\ http.statuses # <<>>
        /\ IsErrorStatus(LastStatus)
        /\ LastStatus \notin RETRYABLE_STATUS_CODES)
          => /\ http.pc = "raised"
             /\ Len(http.sleeps) = Len(http.statuses) - 1
             /\ (IsErrorStatus(http.statuses[1])
                  /\ http.statuses[1] \notin RETRYABLE_STATUS_CODES
                    => Len(http.statuses) = 1 /\ http.sleeps = <<>>)
    /\ (http.pc = "returned" => ~IsErrorStatus(http.response.status))

C8_Witness ==
    /\ http.pc = "raised"
    /\ http.statuses = <<404>>
    /\ http.sleeps = <<>>

\* C9: the Greenhouse adapter sends the ETag of its prior response as
\* If-None-Match, and when the source answers 304 Not Modified fetch returns
\* an empty sequence.
C9_NotModifiedYieldsEmpty ==
    /\ (fetch.pc # "idle" /\ fetch.adapter = "greenhouse" /\ fetch.prior # NoneVal)
          => fetch.sent = fetch.prior
    /\ (/\ fetch.pc \in {"returned", "raised"}
        /\ fetch.adapter = "greenhouse"
        /\ http.statuses # <<>>
        /\ LastStatus = NOT_MODIFIED)
          => fetch.pc = "returned" /\ fetch.items = <<>>

\* C10: fetch(limit) emits at most limit items for every limit given,
\* 0 included, and one item per posting when no limit is given.
C10_LimitCapsItems ==
    (fetch.pc = "returned" /\ http.pc = "returned")
      => /\ (fetch.limit # NoLimit => Len(fetch.items) <= fetch.limit)
         /\ (fetch.limit = NoLimit => Len(fetch.items) = Len(http.response.body))

\* C11: in an ingest_all run, an unknown source identifier or an entry
\* missing its board / company / url makes the run raise at adapter
\* construction, and no network request of the run has been issued by then.
C11_ConfigErrorBeforeNetwork ==
    /\ (run.kind = "batch" /\ run.pc = "raised" /\ run.exc = "ValueError")
          => run.requests = 0
    /\ (run.kind = "batch" /\ run.pc = "committed")
          => \A i \in 1..Len(run.sources) : run.sources[i] \in SupportedSources

\* C12: match_all called with a profile id that does not exist raises a
\* not-found error (ValueError) in that very step, leaves every Match record
\* as it was, and no Match record ever refers to such a profile.
BeginStep(w) == mrun[w].pc \in {"idle", "done", "raised"} /\ mrun'[w] # mrun[w]
C12_MissingProfileRaises ==
    /\ [](\A m \in matches : m.profile_id \in Profiles)
    /\ [][\A w \in Workers :
            (BeginStep(w) /\ mrun'[w].profile_id \notin Profiles)
               => /\ mrun'[w].pc = "raised"
                  /\ mrun'[w].exc = "ValueError"
                  /\ matches' = matches]_vars

C12_Witness ==
    \E w \in Workers :
        /\ mrun[w].pc = "raised"
        /\ mrun[w].exc = "ValueError"
        /\ mrun[w].profile_id \notin Profiles
        /\ matches # {}

\* C13: when anything raises during an ingest_all run, the error reaches
\* the caller, no summary is returned (the results of the sources already
\* completed are lost), and the jobs table is left as it was when the run
\* began: the run writes to it only in the step that commits.
BatchRunning == run.kind = "batch" /\ run.pc \in {"build", "fetch", "items"}
C13_FailedRunCommitsNothing ==
    [][BatchRunning =>
         /\ (db' # db => run'.pc = "committed")
         /\ (run'.pc = "raised" =>
                /\ run'.exc # NoneVal
                /\ ~run'.returned
                /\ db' = db
                /\ sess' = SessClosed)
         /\ (run'.returned => run'.pc = "committed")]_vars

C13_Witness ==
    /\ run.kind = "batch"
    /\ run.pc = "raised"
    /\ run.results # <<>>
    /\ run.results[1].inserted >= 1
    /\ db = {}

\* C14 (as stated): skipped counts the dry-run items only: in a dry run
\* skipped = fetched and inserted = updated = 0; in a non-dry run no item
\* is counted as skipped.
C14_SkippedIsDryRunOnly ==
    (run.kind = "ingest" /\ run.pc \in {"loop", "committed"})
      => IF run.dry_run
         THEN /\ run.result.skipped = run.result.fetched
              /\ run.result.inserted = 0
              /\ run.result.updated = 0
         ELSE run.result.skipped = 0

\* C14 (amended): skipped counts the items that were fetched and not
\* written: in a dry run every item (skipped = fetched, inserted = updated
\* = 0, session and jobs table untouched), in a non-dry run exactly the
\* items whose stored job already carries every tracked value.
ItemStep == run.kind = "ingest" /\ run.pc = "loop" /\ run.batch # <<>> /\ run' # run
C14_SkippedCountsUnwritten ==
    /\ []((run.kind = "ingest" /\ run.dry_run /\ run.pc \in {"loop", "committed"})
            => /\ run.result.skipped = run.result.fetched
               /\ run.result.inserted = 0
               /\ run.result.updated = 0
               /\ ~run.wrote)
    /\ [][(run.kind = "ingest" /\ run.dry_run /\ run.pc = "loop")
            => db' = db /\ (run'.pc = "loop" => sess' = sess)]_vars
    /\ [][(ItemStep /\ ~run.dry_run) =>
            LET normalized == NormalizePayload(Head(run.batch))
                same == \E r \in sess.rows :
                           /\ SameKey(r, normalized)
                           /\ \A f \in updatable_fields : r[f] = normalized[f]
            IN /\ run'.result.fetched = run.result.fetched + 1
               /\ run'.result.skipped =
                     run.result.skipped + (IF same THEN 1 ELSE 0)
               /\ (same => sess' = sess /\ db' = db)]_vars

C14_Witness ==
    /\ run.kind = "ingest"
    /\ run.pc = "committed"
    /\ ~run.dry_run
    /\ run.result.skipped = 1
    /\ run.result.inserted = 1

\* C15: filter_by_geo returns, in input order, exactly the jobs whose
\* remote flag is true or whose location contains, case-insensitively, one
\* of the allowed-region markers (trimmed, blank ones ignored); a remote
\* job is kept for every marker list, the empty one included, whatever its
\* location.
HasMarker(location, allowed_regions) ==
    \E i \in 1..Len(allowed_regions) :
        /\ Strip(allowed_regions[i]) # <<>>
        /\ Contains(Lower(location), Lower(Strip(allowed_regions[i])))
GeoKept(job) == job.remote \/ HasMarker(job.location, call.allowed_regions)
C15_GeoKeepsRemoteOrRegion ==
    call.fn = "filter_by_geo"
      => /\ call.out = SelectSeq(call.jobs, GeoKept)
         /\ \A i \in 1..Len(call.jobs) :
               call.jobs[i].remote => \E j \in 1..Len(call.out) : call.out[j] = call.jobs[i]

C15_Witness ==
    /\ call.fn = "filter_by_geo"
    /\ call.allowed_regions = << <<"D", "E">>, <<"U", "S">> >>
    /\ call.jobs = <<[remote |-> TRUE, location |-> <<"U">>],
                     [remote |-> FALSE, location |-> <<"U">>]>>
    /\ call.out = <<[remote |-> TRUE, location |-> <<"U">>]>>

\* C16: a match_all run (executed alone) that commits has written a Match
\* for exactly the stored jobs that pass the three filters: remote or an
\* allowed-region marker in the location; score >= threshold, the threshold
\* being the min_score argument when given (0 included) and the configured
\* default otherwise; and a title keyword in the title, or no title
\* keywords configured. The records of the other jobs are left alone.
Threshold(r) == IF r.min_score # NoMinScore THEN r.min_score ELSE settings.min_score
HasKeyword(title, keywords) ==
    \E i \in 1..Len(keywords) :
        /\ Strip(keywords[i]) # <<>>
        /\ Contains(Lower(title), Lower(Strip(keywords[i])))
NoKeywords(keywords) == \A i \in 1..Len(keywords) : Strip(keywords[i]) = <<>>
Passes(job, r) ==
    /\ job.remote \/ HasMarker(job.location, settings.geo_filter_keywords)
    /\ r.scores[job.id].score >= Threshold(r)
    /\ NoKeywords(r.title_keywords) \/ HasKeyword(job.title, r.title_keywords)
C16_WritesExactlyTheSurvivors ==
    [][\A w \in Workers : CommitStep(w) =>
          LET r == mrun[w]
              written == {r.pending[i].job_id : i \in 1..Len(r.pending)}
                            \cup {m.job_id : m \in r.dirty}
              passing == {MatchJobs[i].id : i \in {k \in 1..Len(MatchJobs) :
                                                      Passes(MatchJobs[k], r)}}
          IN /\ written = passing
             /\ \A j \in passing :
                   \E m \in Lookup(matches', j, r.profile_id) :
                       m.score = r.scores[j].score
             /\ \A j \in JobIds \ passing :
                   Lookup(matches', j, r.profile_id) = Lookup(matches, j, r.profile_id)]_vars

C16_Witness ==
    \E w \in Workers :
        /\ mrun[w].pc = "persist"
        /\ mrun[w].todo = <<>>
        /\ mrun[w].min_score = 0
        /\ mrun[w].title_keywords = <<>>
        /\ mrun[w].scores[2].score < settings.min_score
        /\ mrun[w].scores[3].score >= settings.min_score
        /\ mrun[w].matches_written = 2

\* C17: the ranking step returns the candidates it was given, ordered by
\* score descending, and two candidates of equal score stay in the order
\* they had in the input (the order the jobs were read in).
C17_RankingStable ==
    call.fn = "sort"
      => /\ Len(call.out) = Len(call.items)
         /\ \A i \in 1..Len(call.items) : \E k \in 1..Len(call.out) : call.out[k] = call.items[i]
         /\ \A k \in 1..Len(call.out) : \A l \in 1..Len(call.out) :
               k < l => \/ call.out[k].score > call.out[l].score
                        \/ /\ call.out[k].score = call.out[l].score
                           /\ call.out[k].job < call.out[l].job

C17_Witness ==
    /\ call.fn = "sort"
    /\ call.items = <<[job |-> 1, score |-> 40], [job |-> 2, score |-> 60],
                      [job |-> 3, score |-> 40]>>
    /\ call.out = <<[job |-> 2, score |-> 60], [job |-> 1, score |-> 40],
                    [job |-> 3, score |-> 40]>>

\* C19: extract_salary_range returns low <= high whenever it returns a
\* pair; for a text with a range pattern the pair holds the two amounts of
\* the first range, each times 1000 when followed by its k suffix, the
\* smaller one first; without a range pattern it returns (v, v) for the
\* first currency amount; without any currency amount it returns null.
Min(a, b) == IF a <= b THEN a ELSE b
Max(a, b) == IF a <= b THEN b ELSE a
C19_SalaryRangeOrdered ==
    call.fn = "extract_salary_range"
      => LET text == call.text
             hasRange == \E i \in 1..Len(text) : RangeAt(text, i).matched
             hasAmount == \E i \in 1..Len(text) : IsAmount(text[i])
         IN /\ call.out.found => call.out.low <= call.out.high
            /\ hasRange =>
                  LET m == RangeAt(text, RangeSearch(text))
                      a == AmountValue(m.low) * (IF m.lowsuffix THEN 1000 ELSE 1)
                      b == AmountValue(m.high) * (IF m.highsuffix THEN 1000 ELSE 1)
                  IN call.out = Salary(Min(a, b), Max(a, b))
            /\ (~hasRange /\ hasAmount) =>
                  LET i == FirstSingle(text)
                      v == AmountValue(text[i]) * (IF At(text, i + 1) = "k" THEN 1000 ELSE 1)
                  IN call.out = Salary(v, v)
            /\ ~hasAmount => call.out = NoSalary

C19_Witness ==
    /\ call.fn = "extract_salary_range"
    /\ call.text = <<"$2", "k", "-", "$1", "k">>
    /\ call.out = Salary(1000, 2000)

\* C18: normalize_payload sets remote to (explicit remote flag of the
\* payload) OR (is_remote of the location classifier): a location with a
\* remote keyword yields remote = true even when the explicit flag is false.
C18_RemoteIsFlagOrClassifier ==
    call.fn \in {"normalize_payload", "upsert_job"}
      => call.out.remote =
            ((call.payload.has_remote /\ call.payload.remote)
               \/ normalize_location(call.payload.location).is_remote)

\* C20: every job record produced by normalize_payload and stored by
\* upsert_job has salary_min and salary_max both null, or both integers
\* with salary_min <= salary_max, for an explicit salary_range as well as
\* for an extracted one.
C20_SalaryBoundsOrdered ==
    call.fn = "upsert_job"
      => /\ call.job.salary_min.null = call.job.salary_max.null
         /\ call.job.salary_min.value <= call.job.salary_max.value

\* C21: the tags value normalize_payload produces is a comma-joined
\* ordered set: split on its commas, it shows no tag twice.
StoredTags == SplitOn(call.out, {","}, <<>>)
C21_TagsDeduplicated ==
    call.fn = "normalize_payload"
      => \A i, j \in 1..Len(StoredTags) : StoredTags[i] = StoredTags[j] => i = j

\* C22 as stated: kind is remote when a remote keyword is present, else
\* hybrid when a hybrid keyword is present, else on-site; the display
\* string is "Unknown" without tokens, else the de-duplicated tokens joined
\* by ", ", prefixed with "Remote - " whenever the kind is remote and with
\* "Hybrid - " whenever the kind is hybrid.
LocationTokens == _tokenise(Strip(call.location))
HasRemoteKeyword == AnyKeyword(REMOTE_KEYWORDS, Lower(Strip(call.location)))
HasHybridKeyword == AnyKeyword(HYBRID_KEYWORDS, Lower(Strip(call.location)))
JoinedTokens == Join(FromKeys(LocationTokens, {}), <<",", " ">>)
KindAsSpecified ==
    call.out.kind = IF HasRemoteKeyword THEN "remote"
                    ELSE IF HasHybridKeyword THEN "hybrid" ELSE "on-site"
C22_PrefixWheneverTokens ==
    call.fn = "normalize_location"
      => /\ KindAsSpecified
         /\ call.out.normalized =
              IF LocationTokens = <<>> THEN UnknownText
              ELSE IF call.out.kind = "remote" THEN RemotePrefix \o JoinedTokens
              ELSE IF call.out.kind = "hybrid" THEN HybridPrefix \o JoinedTokens
              ELSE JoinedTokens

\* C22, amended: as above, except that a remote location whose joined
\* tokens read exactly "Remote" is displayed as "Remote", without prefix.
C22_PrefixUnlessBareRemote ==
    call.fn = "normalize_location"
      => /\ KindAsSpecified
         /\ call.out.normalized =
              IF LocationTokens = <<>> THEN UnknownText
              ELSE IF call.out.kind = "remote" /\ JoinedTokens # RemoteText
                   THEN RemotePrefix \o JoinedTokens
              ELSE IF call.out.kind = "hybrid" THEN HybridPrefix \o JoinedTokens
              ELSE JoinedTokens

\* A remote location with a duplicated token has been normalised.
C22_Witness ==
    /\ call.fn = "normalize_location"
    /\ call.out.kind = "remote"
    /\ Len(LocationTokens) = 2
    /\ Len(FromKeys(LocationTokens, {})) = 1
    /\ call.out.normalized = RemotePrefix \o <<"r", "e", "m", "o", "t", "e">>

\* C23: an adapter whose source returns a successful response of
\* unrecognized shape (a body that is not the expected container, a list
\* whose elements are not posting objects, or a Workday URL that is not a
\* public endpoint) yields zero items and does not raise; only failures of
\* client.get propagate.
ExpectedContainer(adapter, body) ==
    IF adapter = "lever" THEN body.container = "list"
    ELSE body.container = "dict" /\ body.key = JobsKey[adapter]
NoPostingObjects(body) ==
    /\ body.elements # <<>>
    /\ \A i \in 1..Len(body.elements) : ~body.elements[i].is_dict
Unrecognized ==
    \/ call.adapter = "workday" /\ ~call.public
    \/ /\ ~call.got.raised
       /\ \/ ~ExpectedContainer(call.adapter, call.got.body)
          \/ NoPostingObjects(call.got.body)
C23_UnrecognizedShapeYieldsNothing ==
    call.fn = "fetch"
      => /\ Unrecognized => ~call.out.raised /\ call.out.items = <<>>
         /\ call.out.raised => call.got.raised

\* C24: the keyword component of a score is (number of keywords found as
\* case-insensitive substrings of the description) / (length of the keyword
\* list), over the profile's keyword list or, when that is empty, the
\* configured list; matched_keywords lists the hit keywords in list order
\* as written. A description containing every keyword gets ratio 1 and the
\* whole list, one containing none gets ratio 0 and the empty list.
ProfileList == Normalize(SplitOn(call.profile_keywords, {","}, <<>>))
KeywordList == IF ProfileList = <<>> THEN call.match_keywords ELSE ProfileList
IsHit(keyword) == Contains(Lower(call.job_text), Lower(keyword))
HitKeywords == SelectSeq(KeywordList, IsHit)
C24_KeywordRatio ==
    call.fn = "score"
      => /\ call.out.matched_keywords = HitKeywords
         /\ call.out.keyword_weight =
              IF KeywordList = <<>> THEN Ratio(0, 1)
              ELSE Ratio(Len(HitKeywords), Len(KeywordList))
         /\ (\A i \in 1..Len(KeywordList) : IsHit(KeywordList[i]))
              => call.out.matched_keywords = KeywordList
         /\ (\A i \in 1..Len(KeywordList) : ~IsHit(KeywordList[i]))
              => call.out.matched_keywords = <<>> /\ call.out.keyword_weight.num = 0

\* The profile lists "PHP" and "us"; the description holds the first in
\* another case only, and not the second.
C24_Witness ==
    /\ call.fn = "score"
    /\ call.profile_keywords = PHP \o <<",", " ", "u", "s">>
    /\ call.job_text = <<"p", "h", "p">>
    /\ call.out.matched_keywords = <<PHP>>
    /\ call.out.keyword_weight = Ratio(1, 2)

\* C25: ingest_all processes the configured entries strictly one after
\* another: the item sequence of an entry is fetched in full before its
\* first upsert and only consumed afterwards; when the adapter of the next
\* entry is built or fetched, no item of an earlier entry is left to upsert
\* or to flush; every processed entry appends one summary, in processing
\* order, and a run that returns has processed every entry.
BatchBetweenEntries == run.kind = "batch" /\ run.pc \in {"build", "fetch"}
C25_NothingOutstanding ==
    /\ BatchBetweenEntries => run.batch = <<>> /\ sess.pending = <<>>
    /\ (run.kind = "batch" /\ run.pc = "committed") => run.targets = <<>>
C25_EntriesSequential ==
    /\ []C25_NothingOutstanding
    /\ [][run'.kind = "batch" =>
            /\ (run'.batch # run.batch =>
                  \/ run.pc = "fetch" /\ run'.pc = "items"
                  \/ run.pc = "items" /\ run'.pc = "items" /\ run'.batch = Tail(run.batch)
                  \/ run'.pc = "build" /\ run'.results = <<>> /\ run'.batch = <<>>)
            /\ (sess'.pending # sess.pending /\ sess'.pending # <<>> =>
                  run.pc = "items" /\ run.batch # <<>>)
            /\ (run'.results # run.results =>
                  \/ run'.pc = "build" /\ run'.results = <<>> /\ run.pc # "items"
                  \/ /\ run.pc = "items" /\ run.batch = <<>>
                     /\ Len(run'.results) = Len(run.results) + 1
                     /\ SubSeq(run'.results, 1, Len(run.results)) = run.results
                     /\ run'.results[Len(run'.results)].source = Head(run.targets).source
                     /\ run'.results[Len(run'.results)].fetched = run.result.fetched
                     /\ run'.targets = Tail(run.targets))]_vars

\* A run over two entries returned their summaries in processing order,
\* both with postings written.
C25_Witness ==
    /\ run.kind = "batch"
    /\ run.pc = "committed"
    /\ Len(run.results) = 2
    /\ run.results[1].source = "greenhouse" /\ run.results[1].inserted = 2
    /\ run.results[2].source = "lever" /\ run.results[2].inserted = 2

\* C26: get_default_profile returns the profile named default_profile_name
\* when one exists, otherwise the stored profile of smallest id, otherwise
\* None; it never raises, whatever the number of stored profiles.
NamedProfiles ==
    {r \in call.profiles : call.default_profile_name # ""
                             /\ r.name = call.default_profile_name}
C26_DefaultOrFirstProfile ==
    call.fn = "get_default_profile"
      => /\ ~call.out.raised
         /\ call.out.id =
              IF NamedProfiles # {} THEN (CHOOSE r \in NamedProfiles : TRUE).id
              ELSE IF call.profiles # {}
                   THEN (CHOOSE r \in call.profiles : \A o \in call.profiles : r.id <= o.id).id
              ELSE 0

\* C27: every summary returned by IngestionSource.ingest satisfies
\* fetched = inserted + updated + skipped, for every fetched sequence,
\* limit and dry_run value; fetched counts the payloads of the fetched
\* sequence taken so far.
C27_FetchedIsSumOfOutcomes ==
    (run.kind = "ingest" /\ run.pc \in {"loop", "committed"})
      => /\ run.result.fetched
              = run.result.inserted + run.result.updated + run.result.skipped
         /\ run.pc = "loop"
              => run.result.fetched + Len(run.batch)
                    = Len(Emit("greenhouse", feed, run.limit))

\* A non-dry run returned a summary with an inserted and an updated job.
C27_Witness ==
    /\ run.kind = "ingest"
    /\ run.pc = "committed"
    /\ ~run.dry_run
    /\ run.result.fetched = 2
    /\ run.result.inserted = 1
    /\ run.result.updated = 1

\* C28: within one ingestion run, when the fetched batch holds two payloads
\* with the same (source, external_id) and the key is not stored yet, the
\* first is counted as inserted, the second as updated or unchanged (never
\* as a second insert), and the run completes with exactly one stored job
\* for that key.
InsertedEarlier(normalized) ==
    \E i \in 1..Len(sess.pending) : SameKey(sess.pending[i], normalized)
LoopOver == run.kind = "ingest" /\ run.pc = "loop" /\ run.batch = <<>> /\ run' # run
C28_InBatchDuplicateIsUpdate ==
    /\ [][(ItemStep /\ ~run.dry_run /\ InsertedEarlier(NormalizePayload(Head(run.batch))))
            => run'.status \in {"updated", "unchanged"}]_vars
    /\ [][(LoopOver /\ ~run.dry_run)
            => /\ run'.pc = "committed"
               /\ \A i \in 1..Len(sess.pending) :
                     Cardinality({r \in db' : SameKey(r, sess.pending[i])}) = 1]_vars

\* C29: match_all never deletes a Match record and never modifies the
\* record of a job that is not among the ranked survivors of the run: a
\* job that matched in an earlier run and fails a filter now keeps its
\* score and reason, and the records of other profiles are untouched.
IsSurvivor(w, m) ==
    /\ mrun[w].pc = "persist"
    /\ mrun[w].profile_id = m.profile_id
    /\ \E i \in 1..Len(mrun[w].ranked) : mrun[w].ranked[i].job = m.job_id
C29_OnlySurvivorsAreTouched ==
    [][\A m \in matches :
          \/ m \in matches'
          \/ /\ \E w \in Workers : IsSurvivor(w, m)
             /\ \E n \in matches' :
                   n.id = m.id /\ n.job_id = m.job_id /\ n.profile_id = m.profile_id]_vars

\* The last run of profile 1 updated one record and wrote nothing else,
\* while profile 1 holds a second record, with the score an earlier run gave
\* it, and profile 2 holds records too.
C29_Witness ==
    /\ mrun[1].pc = "done"
    /\ mrun[1].profile_id = 1
    /\ mrun[1].updated = 1
    /\ mrun[1].ret = 1
    /\ Cardinality({m \in matches : m.profile_id = 1}) = 2
    /\ \E m \in matches : m.profile_id = 1 /\ m.score = 60
    /\ \E m \in matches : m.profile_id = 1 /\ m.score = 40
    /\ \E m \in matches : m.profile_id = 2

\* C30: once the store holds two or more Match records for one (job_id,
\* profile_id), a match_all run of that profile that still has that job
\* among the survivors to look up never commits: it raises
\* MultipleResultsFound at the lookup, and no step of it changes the matches
\* table, so the changes made for survivors ranked before that job are lost
\* as well. A run that begins has all its ranked survivors to look up.
HasDuplicates(job_id, profile_id) ==
    Cardinality({m \in matches : m.job_id = job_id /\ m.profile_id = profile_id}) > 1
Doomed(w) ==
    /\ mrun[w].pc = "persist"
    /\ \E i \in 1..Len(mrun[w].todo) : HasDuplicates(mrun[w].todo[i].job, mrun[w].profile_id)
C30_DuplicatesFailLaterRuns ==
    [][\A w \in Workers :
          /\ (mrun[w].pc # "persist" /\ mrun'[w].pc = "persist")
                => mrun'[w].todo = mrun'[w].ranked
          /\ Doomed(w) =>
                /\ mrun'[w].pc \in {"persist", "raised"}
                /\ (mrun'[w].pc = "raised" => mrun'[w].exc = "MultipleResultsFound")
                /\ (mrun'[w].pc = "persist" => Doomed(w)')
                /\ (mrun'[w] # mrun[w] => matches' = matches)
          /\ (mrun[w].pc = "persist" /\ mrun[w].todo # <<>>
                /\ HasDuplicates(Head(mrun[w].todo).job, mrun[w].profile_id)
                /\ mrun'[w] # mrun[w])
                => mrun'[w].pc = "raised"]_vars

\* A run holds a new record for its first survivor and is about to look up
\* its second one, which has two stored records.
C30_Witness ==
    \E w \in Workers :
        /\ mrun[w].pc = "persist"
        /\ Len(mrun[w].ranked) = 2
        /\ Len(mrun[w].pending) = 1
        /\ Len(mrun[w].todo) = 1
        /\ HasDuplicates(Head(mrun[w].todo).job, mrun[w].profile_id)

====
